---- MODULE Spec2Model ----
(***************************************************************************)
(* State-machine model of the GAP autonomy kernel (gap_kernel):            *)
(*   governance/kernel.py   evaluate_proposal and its helpers              *)
(*   execution/fabric.py    ExecutionFabric.execute                        *)
(*   strategy/cga_loop.py   CGALoop.run, CGAResult.build_lineage_record    *)
(*   lineage/store.py       LineageStore (append, queries, verification)   *)
(*   reconciler/loop.py     ReconcilerLoop.reconcile_once                  *)
(*                                                                         *)
(* Conventions.  A Python Optional[record] is a sequence of length 0 or 1. *)
(* An optional string is "" when absent, an optional hour is -1.  Money is *)
(* counted in cents.  A joined string "a|b" is the sequence of its parts.  *)
(* SHA-256 is taken to be collision free: the digest of a canonical JSON   *)
(* text is the one-element sequence holding that text.                     *)
(***************************************************************************)
EXTENDS Integers, Sequences, FiniteSets, TLC

VARIABLES
    gIn,        \* arguments of a pending evaluate_proposal call
    gOut,       \* Optional[GovernanceDecision] returned by that call
    registry,   \* GovernanceKernel._action_type_registry
    world,      \* WorldModel.entities: entity id -> EntityState
    handlerLog, \* executor handler invocations, in order: <<action_type, target>>
    xIn,        \* arguments of a direct ExecutionFabric.execute call
    xOut,       \* outcome of that call: "none", "raised" or "returned"
    xResult,    \* Optional[ExecutionResult] returned by that call
    cga,        \* the locals of CGALoop.run, then the CGAResult
    uuid,       \* number of identifiers drawn so far (uuid4)
    ledger,     \* rows of the lineage table, in rowid order
    writers,    \* append calls in progress: thread -> position and locals
    lOut,       \* the store operation that ran last and what it returned
    tampered,   \* out-of-band edits of record_json: position and original
    tick,       \* position and locals of the reconcile_once call in progress
    dampening,  \* ReconcilerLoop._dampening: entity id -> DampeningState
    config,     \* ReconcilerLoop.config
    escalation_queue, \* ReconcilerLoop._escalation_queue
    registered, \* ReconcilerLoop._intents, in registration order
    drift_events, \* WorldModel.drift_events
    heuristics, \* LearningEngine._heuristics, in insertion order
    cycles,     \* history: the cga.run calls of the reconciler so far
    callers,    \* reconcile_once calls running in threads: thread -> locals
    run,        \* position and locals of run_async, _running, the stop event
    policy_proposals, \* LearningEngine._proposals, in insertion order
    executors   \* ExecutionFabric._executors: action type -> what the handler does

govVars   == <<gIn, gOut, registry>>
execVars  == <<xIn, xOut, xResult, executors>>
worldVars == <<world, handlerLog>>
cgaVars   == <<cga, uuid>>
ledgerVars == <<ledger, writers, lOut, tampered>>
reconVars == <<tick, dampening, config, escalation_queue, registered,
               drift_events, heuristics, cycles, callers, run,
               policy_proposals>>
vars      == <<govVars, execVars, worldVars, cgaVars, ledgerVars, reconVars>>

\* run_async was not called: ReconcilerLoop.__init__ sets _running = False.
NoRun ==
    [ pc |-> "new", running |-> FALSE, stop |-> FALSE, own_event |-> FALSE,
      ticks |-> 0, waited |-> 0 ]

-----------------------------------------------------------------------------
(* Generic helpers                                                         *)

Range(s) == { s[i] : i \in 1..Len(s) }

RECURSIVE SeqMax(_, _)
SeqMax(s, default) ==
    IF s = << >> THEN default
    ELSE LET m == SeqMax(Tail(s), default)
         IN  IF Len(s) = 1 THEN Head(s)
             ELSE IF Head(s) >= m THEN Head(s) ELSE m

-----------------------------------------------------------------------------
(* models/governance.py, models/intent.py: enumerations                    *)

APPROVED == "approved"
REJECTED == "rejected"
ESCALATE == "escalate"
GovernanceVerdict == {APPROVED, REJECTED, ESCALATE}

HARD == "hard"
SOFT == "soft"

\* AuthorizationLevel L0..L4; the model keeps the level's number.
AuthorizationLevel == 0..4

-----------------------------------------------------------------------------
(* governance/kernel.py: temporal authority                                *)

\* The cron expression of a constraint is kept by what croniter does with it
\* at the evaluation time: "" (no schedule), "match", "nomatch" or
\* "invalid" (croniter raises ValueError/KeyError).
is_constraint_active(constraint) ==
    IF constraint.activation.always THEN TRUE
    ELSE IF constraint.activation.schedule # ""
         THEN constraint.activation.schedule = "match"
         ELSE FALSE

-----------------------------------------------------------------------------
(* governance/kernel.py: constraint violation checks                       *)

OutreachTypes == {"send_email", "send_sms", "direct_call", "automated_outreach"}

EUGeos == {"EU", "EEA", "DE", "FR", "IT", "ES", "NL", "BE", "AT",
           "SE", "DK", "FI", "IE", "PT", "GR", "PL", "CZ", "RO",
           "HU", "BG", "HR", "SK", "SI", "LT", "LV", "EE", "CY",
           "MT", "LU"}

\* str.upper() on the geo strings the model uses.
Upper(s) ==
    CASE s = "eu" -> "EU"
      [] s = "de" -> "DE"
      [] s = "us" -> "US"
      [] OTHER    -> s

check_gdpr_consent(proposal, constraint, entities) ==
    \E i \in 1..Len(proposal.actions) :
        LET action == proposal.actions[i] IN
        /\ action.action_type \in OutreachTypes
        /\ IF action.target \in DOMAIN entities
           THEN LET props == entities[action.target] IN
                /\ Upper(props.geo) \in EUGeos
                /\ ~props.gdpr_consent
           ELSE action.requires_consent

check_contact_hours(proposal, constraint, entities) ==
    \E i \in 1..Len(proposal.actions) :
        LET action == proposal.actions[i] IN
        /\ action.action_type \in OutreachTypes
        /\ action.target \in DOMAIN entities
        /\ LET local_hour == entities[action.target].local_hour IN
           /\ local_hour # -1
           /\ (local_hour >= 22 \/ local_hour < 7)

\* constraint.ceiling is the dollar literal found in the description, in
\* cents, or -1 when the description holds none.
check_cost_ceiling(proposal, constraint, entities) ==
    /\ constraint.ceiling # -1
    /\ proposal.estimated_cost > constraint.ceiling

generic_constraint_check(proposal, constraint, entities) == FALSE

check_constraint_violation(proposal, constraint, entities) ==
    CASE constraint.name = "gdpr_consent_required" ->
            check_gdpr_consent(proposal, constraint, entities)
      [] constraint.name = "no_contact_outside_hours" ->
            check_contact_hours(proposal, constraint, entities)
      [] constraint.name = "cost_ceiling" ->
            check_cost_ceiling(proposal, constraint, entities)
      [] OTHER -> generic_constraint_check(proposal, constraint, entities)

format_structured_reason(violations) == violations

-----------------------------------------------------------------------------
(* governance/kernel.py: authorization level mapping                       *)

\* Mutant: the levels follow the boundaries of the legacy tiers.
determine_auth_level_by_tier(max_risk) ==
    IF max_risk <= 3 THEN 0
    ELSE IF max_risk <= 6 THEN 1
    ELSE IF max_risk <= 8 THEN 2
    ELSE 4

determine_auth_level(max_risk) ==
    IF max_risk <= 3 THEN 0
    ELSE IF max_risk <= 5 THEN 1
    ELSE IF max_risk <= 7 THEN 2
    ELSE IF max_risk = 8 THEN 3
    ELSE 4

\* Mutant: the escalate tier starts at risk 8.
determine_auth_tier_from_8(max_risk) ==
    IF max_risk <= 3 THEN "auto_execute"
    ELSE IF max_risk <= 6 THEN "notify_proceed"
    ELSE IF max_risk <= 7 THEN "require_approval"
    ELSE "escalate"

determine_auth_tier(max_risk) ==
    IF max_risk <= 3 THEN "auto_execute"
    ELSE IF max_risk <= 6 THEN "notify_proceed"
    ELSE IF max_risk <= 8 THEN "require_approval"
    ELSE "escalate"

-----------------------------------------------------------------------------
(* governance/kernel.py: GovernanceKernel._get_active_constraints          *)

RECURSIVE get_active_constraints(_)
get_active_constraints(intents) ==
    IF intents = << >> THEN << >>
    ELSE LET intent == Head(intents)
             Active(c) == c.activation.always \/ is_constraint_active(c)
         IN  (IF ~intent.active THEN << >>
              ELSE SelectSeq(intent.hard_constraints \o intent.soft_constraints,
                             Active))
             \o get_active_constraints(Tail(intents))

\* Names of the active constraints of the given type that the proposal
\* trips, in the order of the active constraint list (steps 2 and 3 of
\* evaluate_proposal, and the loop of evaluate_phase).
violations_of(ctype, proposal, active_constraints, entities) ==
    LET Tripped(c) == /\ c.type = ctype
                      /\ check_constraint_violation(proposal, c, entities)
        hit == SelectSeq(active_constraints, Tripped)
    IN  [i \in 1..Len(hit) |-> hit[i].name]

serialize_active_policies(constraints) ==
    [i \in 1..Len(constraints) |->
        [name |-> constraints[i].name, type |-> constraints[i].type]]

-----------------------------------------------------------------------------
(* governance/kernel.py: structured uncertainty                            *)

RECURSIVE SumSeq(_)
SumSeq(s) == IF s = << >> THEN 0 ELSE Head(s) + SumSeq(Tail(s))

\* Entity confidence is kept in percent; confidence_level is returned in
\* percent too (round(., 2) of a value in [0, 1]).
build_uncertainty_declaration(proposal, entities, active_constraints, hard_violations, soft_violations) ==
    LET Known(a)   == a.target \in DOMAIN entities
        Unknown(a) == a.target \notin DOMAIN entities
        known      == SelectSeq(proposal.actions, Known)
        missing    == SelectSeq(proposal.actions, Unknown)
        Unsure(a)  == entities[a.target].confidence < 100
        unsure     == SelectSeq(known, Unsure)
        known_unknowns ==
            Len(missing) + (IF active_constraints = << >> THEN 1 ELSE 0)
        entity_confidences ==
            [i \in 1..Len(known) |-> entities[known[i].target].confidence]
        \* in units of 1/10000
        avg_confidence ==
            IF entity_confidences # << >>
            THEN (SumSeq(entity_confidences) * 100) \div Len(entity_confidences)
            ELSE 5000
        c1 == IF soft_violations # << >>
              THEN (avg_confidence * 9) \div 10 ELSE avg_confidence
        c2 == IF known_unknowns > 0 THEN (c1 * 8) \div 10 ELSE c1
        clamped == IF c2 > 10000 THEN 10000 ELSE IF c2 < 0 THEN 0 ELSE c2
    IN  [ assumptions      |-> Len(unsure),
          watch_conditions |-> Len(unsure)
                               + (IF soft_violations # << >> THEN 1 ELSE 0),
          evidence_basis   |-> Len(known),
          known_unknowns   |-> known_unknowns,
          confidence_level |-> (clamped + 50) \div 100 ]

-----------------------------------------------------------------------------
(* governance/kernel.py: intent conflict detection                         *)

\* The world model the conflict check evaluates against: no entities.
EmptyEntities == << >>

\* Mutant: no conflict is ever detected.
detect_no_intent_conflicts(proposal, intents) == << >>

detect_intent_conflicts(proposal, intents) ==
    LET Conflicts(intent) ==
            /\ intent.id # proposal.intent_id
            /\ intent.active
            /\ \E i \in 1..Len(intent.hard_constraints) :
                   check_constraint_violation(
                       proposal, intent.hard_constraints[i], EmptyEntities)
    IN  SelectSeq(intents, Conflicts)

\* Mutant: among the intents of the highest priority the last one listed is
\* primary (a sort that is not stable).
resolve_intent_conflict_for_last(conflicting_intents) ==
    LET top == CHOOSE p \in { conflicting_intents[i].priority :
                                 i \in 1..Len(conflicting_intents) } :
                   \A i \in 1..Len(conflicting_intents) :
                       conflicting_intents[i].priority <= p
        last == CHOOSE i \in 1..Len(conflicting_intents) :
                   /\ conflicting_intents[i].priority = top
                   /\ \A j \in (i + 1)..Len(conflicting_intents) :
                          conflicting_intents[j].priority # top
    IN  [ primary_intent |-> conflicting_intents[last].id,
          deprioritized  |->
              LET NotPrimary(x) == x.id # conflicting_intents[last].id
                  rest == SelectSeq(conflicting_intents, NotPrimary)
              IN  [i \in 1..Len(rest) |-> rest[i].id] ]

\* sorted(..., key=priority, reverse=True)[0]: the first intent of the list
\* among those of the highest priority (the sort is stable).
resolve_intent_conflict(conflicting_intents) ==
    LET top == CHOOSE p \in { conflicting_intents[i].priority :
                                 i \in 1..Len(conflicting_intents) } :
                   \A i \in 1..Len(conflicting_intents) :
                       conflicting_intents[i].priority <= p
        first == CHOOSE i \in 1..Len(conflicting_intents) :
                   /\ conflicting_intents[i].priority = top
                   /\ \A j \in 1..(i - 1) :
                          conflicting_intents[j].priority # top
    IN  [ primary_intent |-> conflicting_intents[first].id,
          deprioritized  |->
              LET NotPrimary(x) == x.id # conflicting_intents[first].id
                  rest == SelectSeq(conflicting_intents, NotPrimary)
              IN  [i \in 1..Len(rest) |-> rest[i].id] ]

-----------------------------------------------------------------------------
(* governance/kernel.py: multi-phase authorization                         *)

evaluate_phase(phase, proposal, intents, entities, prior_phase_results) ==
    LET active_constraints == get_active_constraints(intents)
        hard_violations ==
            violations_of(HARD, proposal, active_constraints, entities)
        raised ==
            /\ phase.escalation_on_deviation
            /\ \E i \in 1..Len(prior_phase_results) :
                   prior_phase_results[i].verdict = APPROVED
            /\ phase.default_authorization_level < 2
    IN  IF hard_violations # << >>
        THEN [ phase_name           |-> phase.phase_name,
               verdict              |-> REJECTED,
               authorization_level  |-> phase.default_authorization_level,
               violated_constraints |-> hard_violations,
               rejection_reason     |-> format_structured_reason(hard_violations) ]
        ELSE [ phase_name           |-> phase.phase_name,
               verdict              |-> APPROVED,
               authorization_level  |->
                   IF raised THEN 2 ELSE phase.default_authorization_level,
               violated_constraints |-> << >>,
               rejection_reason     |-> << >> ]

RECURSIVE multi_phase_from(_, _, _, _, _)
multi_phase_from(phases, proposal, intents, entities, results) ==
    IF phases = << >> THEN results
    ELSE LET phase  == Head(phases)
             result == evaluate_phase(phase, proposal, intents, entities, results)
             next   == Append(results, result)
         IN  IF phase.required /\ result.verdict # APPROVED
             THEN next
             ELSE multi_phase_from(Tail(phases), proposal, intents, entities, next)

evaluate_multi_phase(phases, proposal, intents, entities) ==
    multi_phase_from(phases, proposal, intents, entities, << >>)

-----------------------------------------------------------------------------
(* governance/kernel.py: the Action Type Registry                          *)

NoPhases == << >>

BASELINE_ACTION_TYPES ==
    [ t \in {"task_execution", "skill_modification", "drift_reconciliation",
             "escalation", "policy_proposal"} |->
        [ default_authorization_level |->
              CASE t = "task_execution"       -> 0
                [] t = "skill_modification"   -> 2
                [] t = "drift_reconciliation" -> 1
                [] t = "escalation"           -> 0
                [] t = "policy_proposal"      -> 4,
          phase_config |-> NoPhases ] ]

\* Mutant: every type passes.
validate_any_action_type(action_types, action_type) == TRUE

validate_action_type(action_types, action_type) ==
    action_type \in DOMAIN action_types

-----------------------------------------------------------------------------
(* governance/kernel.py: GovernanceKernel.evaluate_proposal                *)

NoLevel == -1

Decision(decision_id, proposal, verdict, violated, reason, level, tier, snapshot, uncertainty, action_type_id, phase_results) ==
    [ id                   |-> decision_id,
      proposal_id          |-> proposal.id,
      verdict              |-> verdict,
      violated_constraints |-> violated,
      rejection_reason     |-> reason,
      authorization_level  |-> level,
      authorization_tier   |-> tier,
      policy_snapshot      |-> snapshot,
      uncertainty          |-> uncertainty,
      action_type_id       |-> action_type_id,
      phase_results        |-> phase_results ]

evaluate_proposal(decision_id, proposal, intents, entities, action_types, action_type_id) ==
    LET \* 1. active constraints
        active_constraints == get_active_constraints(intents)
        \* 2. hard constraints, 3. soft constraints
        hard_violations ==
            violations_of(HARD, proposal, active_constraints, entities)
        soft_violations ==
            violations_of(SOFT, proposal, active_constraints, entities)
        uncertainty ==
            << build_uncertainty_declaration(proposal, entities,
                   active_constraints, hard_violations, soft_violations) >>
        snapshot == serialize_active_policies(active_constraints)
        \* 4. authorization level
        max_risk ==
            SeqMax([i \in 1..Len(proposal.actions) |->
                       proposal.actions[i].risk_score], 1)
        risk_level == determine_auth_level(max_risk)
        tier == determine_auth_tier(max_risk)
        auth_level ==
            IF /\ action_type_id # ""
               /\ action_type_id \in DOMAIN action_types
               /\ action_types[action_type_id].default_authorization_level > risk_level
            THEN action_types[action_type_id].default_authorization_level
            ELSE risk_level
        \* 5. intent conflicts
        conflicts == detect_intent_conflicts(proposal, intents)
        IsServing(i) == i.id = proposal.intent_id
        serving == SelectSeq(intents, IsServing)
        conflict_escalates ==
            /\ conflicts # << >>
            /\ serving # << >>
            /\ resolve_intent_conflict(<<Head(serving)>> \o conflicts).primary_intent
                   # Head(serving).id
        \* 6. multi-phase authorization
        phase_results ==
            IF /\ action_type_id # ""
               /\ action_type_id \in DOMAIN action_types
               /\ action_types[action_type_id].phase_config # << >>
            THEN evaluate_multi_phase(action_types[action_type_id].phase_config,
                                      proposal, intents, entities)
            ELSE << >>
        NotApproved(pr) == pr.verdict # APPROVED
        failed_phases == SelectSeq(phase_results, NotApproved)
    IN  \* 0. action_types check
        IF action_type_id # "" /\ ~validate_action_type(action_types, action_type_id)
        THEN Decision(decision_id, proposal, REJECTED, << >>,
                      <<"unregistered_action_type">>, NoLevel, "",
                      << >>, << >>, action_type_id, << >>)
        ELSE IF hard_violations # << >>
        THEN Decision(decision_id, proposal, REJECTED, hard_violations,
                      format_structured_reason(hard_violations), NoLevel, "",
                      snapshot, uncertainty, action_type_id, << >>)
        ELSE IF tier = "escalate"
        THEN Decision(decision_id, proposal, ESCALATE, << >>,
                      <<"risk_exceeds_system_authority">>, auth_level, tier,
                      snapshot, uncertainty, action_type_id, << >>)
        ELSE IF conflict_escalates
        THEN Decision(decision_id, proposal, ESCALATE, << >>,
                      <<"unresolvable_intent_conflict">>, auth_level, tier,
                      snapshot, uncertainty, action_type_id, << >>)
        ELSE IF failed_phases # << >>
        THEN Decision(decision_id, proposal, Head(failed_phases).verdict,
                      Head(failed_phases).violated_constraints,
                      Head(failed_phases).rejection_reason, auth_level, tier,
                      snapshot, uncertainty, action_type_id, phase_results)
        ELSE \* 7. approved
             Decision(decision_id, proposal, APPROVED, soft_violations,
                      << >>, auth_level, tier,
                      snapshot, uncertainty, action_type_id, phase_results)

-----------------------------------------------------------------------------
(* execution/fabric.py: ExecutionFabric                                    *)

\* _register_default_executors, plus one handler registered through
\* register_executor that raises when called ("flaky_tool").  The value is
\* what the handler does: "ok" returns, "raises" throws.
DefaultExecutors ==
    [ t \in {"send_email", "send_sms", "query_crm", "route_to_human",
             "automated_outreach", "direct_call", "update_record",
             "flaky_tool"} |->
        IF t = "flaky_tool" THEN "raises" ELSE "ok" ]

ContactTypes == {"send_email", "route_to_human", "automated_outreach"}

\* _mock_update_record: entity.properties.update(parameters["updates"]).
\* action.updates is the set of boolean properties the update sets to true.
mock_update_record(action, entities) ==
    IF action.target \in DOMAIN entities
    THEN [entities EXCEPT
            ![action.target].gdpr_consent =
                IF "gdpr_consent" \in action.updates THEN TRUE ELSE @,
            ![action.target].last_contacted =
                IF "last_contacted" \in action.updates THEN TRUE ELSE @]
    ELSE entities

\* The handler's own effect on the world model.
handler_effect(action, entities) ==
    IF action.action_type = "update_record"
    THEN mock_update_record(action, entities)
    ELSE entities

\* _dispatch_action: the result dictionary, the handler invocation (if any)
\* and the world model after the handler ran.
dispatch_action(action, entities) ==
    IF action.action_type \notin DOMAIN executors
    THEN [ success  |-> FALSE, error |-> "no_executor_registered",
           invoked  |-> FALSE, entities |-> entities ]
    ELSE IF executors[action.action_type] = "raises"
    THEN [ success  |-> FALSE, error |-> "handler_exception",
           invoked  |-> TRUE, entities |-> entities ]
    ELSE [ success  |-> TRUE, error |-> "",
           invoked  |-> TRUE, entities |-> handler_effect(action, entities) ]

\* Mutant: every completed action marks its target as contacted.
apply_state_changes_for_any_type(action, entities) ==
    IF action.target \in DOMAIN entities
    THEN [entities EXCEPT ![action.target].last_contacted = TRUE,
                          ![action.target].contact_method = action.action_type]
    ELSE entities

\* _apply_state_changes: the updated world model.
apply_state_changes(action, entities) ==
    IF action.target \in DOMAIN entities /\ action.action_type \in ContactTypes
    THEN [entities EXCEPT ![action.target].last_contacted = TRUE,
                          ![action.target].contact_method = action.action_type]
    ELSE entities

\* The list of changes _apply_state_changes returns.
state_changes_of(action, entities) ==
    IF action.target \in DOMAIN entities /\ action.action_type \in ContactTypes
    THEN << [entity_id |-> action.target, field |-> "last_contacted",
             source |-> action.action_type] >>
    ELSE << >>

\* The loop of execute over proposal.actions.
RECURSIVE execute_actions(_, _)
execute_actions(actions, st) ==
    IF actions = << >> THEN st
    ELSE LET action == Head(actions)
             result == dispatch_action(action, st.entities)
             entry  == [action_type |-> action.action_type,
                        target |-> action.target, error |-> result.error]
             log1   == IF result.invoked
                       THEN Append(st.log, <<action.action_type, action.target>>)
                       ELSE st.log
         IN  execute_actions(Tail(actions),
                IF result.success
                THEN [ entities  |-> apply_state_changes(action, result.entities),
                       log       |-> log1,
                       completed |-> Append(st.completed, entry),
                       failed    |-> st.failed,
                       changes   |-> st.changes
                                     \o state_changes_of(action, result.entities) ]
                ELSE [ entities  |-> result.entities,
                       log       |-> log1,
                       completed |-> st.completed,
                       failed    |-> Append(st.failed, entry),
                       changes   |-> st.changes ])

\* Mutant: only a REJECTED verdict stops the call.
execute_guard_rejected_only(governance_decision) ==
    governance_decision.verdict # REJECTED

\* The guard of execute: the call proceeds only on an APPROVED verdict.
execute_guard(governance_decision) == governance_decision.verdict = APPROVED

\* ExecutionFabric.execute: raised (ExecutionError) or the ExecutionResult,
\* with the world model and the handler log after the call.
execute(proposal, governance_decision, entities, log) ==
    IF ~execute_guard(governance_decision)
    THEN [ raised |-> TRUE, result |-> << >>,
           entities |-> entities, log |-> log ]
    ELSE LET st == execute_actions(proposal.actions,
                      [ entities |-> entities, log |-> log,
                        completed |-> << >>, failed |-> << >>,
                        changes |-> << >> ])
         IN  [ raised |-> FALSE,
               result |-> << [ proposal_id         |-> proposal.id,
                               actions_completed   |-> st.completed,
                               actions_failed      |-> st.failed,
                               success             |-> Len(st.failed) = 0,
                               world_state_changes |-> st.changes ] >>,
               entities |-> st.entities,
               log |-> st.log ]

-----------------------------------------------------------------------------
(* strategy/cga_loop.py: RuleBasedStrategyGenerator                        *)

\* "needle in name.lower()" for the constraint names the model uses.
NameContains(name, needle) ==
    CASE needle = "gdpr"       -> name \in {"gdpr_consent_required"}
      [] needle = "no_consent" -> name \in {"no_consent_on_file"}
      [] needle = "no consent" -> FALSE
      [] OTHER                 -> FALSE

\* The joined rejection reason contains the needle iff one of its parts does
\* (no needle contains the separator "|").
ReasonContains(reason, needle) ==
    \E i \in 1..Len(reason) : NameContains(reason[i], needle)

\* Mutant: a GDPR rejection blocks the second rung as well.
would_violate_gdpr_on_both(rule_index, accumulated_constraints) ==
    /\ rule_index \in {0, 1}
    /\ \E i \in 1..Len(accumulated_constraints) :
           ReasonContains(accumulated_constraints[i].constraint, "gdpr")

would_violate_accumulated(rule_index, accumulated_constraints) ==
    IF rule_index = 0
    THEN \E i \in 1..Len(accumulated_constraints) :
             ReasonContains(accumulated_constraints[i].constraint, "gdpr")
    ELSE IF rule_index = 1
    THEN \E i \in 1..Len(accumulated_constraints) :
             \/ ReasonContains(accumulated_constraints[i].constraint, "no consent")
             \/ ReasonContains(accumulated_constraints[i].constraint, "no_consent")
    ELSE FALSE

rule_direct_automated_outreach(target) ==
    << [ action_type |-> "send_email", target |-> target,
         requires_consent |-> FALSE, risk_score |-> 3, updates |-> {} ] >>

rule_query_then_outreach(target) ==
    << [ action_type |-> "query_crm", target |-> target,
         requires_consent |-> FALSE, risk_score |-> 1, updates |-> {} ],
       [ action_type |-> "send_email", target |-> target,
         requires_consent |-> TRUE, risk_score |-> 3, updates |-> {} ] >>

rule_human_handoff(target) ==
    << [ action_type |-> "route_to_human", target |-> target,
         requires_consent |-> FALSE, risk_score |-> 2, updates |-> {} ] >>

\* self._rules, indexed from 0 as in the source.
NumRules == 3

rule_actions(index, target) ==
    CASE index = 0 -> rule_direct_automated_outreach(target)
      [] index = 1 -> rule_query_then_outreach(target)
      [] OTHER     -> rule_human_handoff(target)

\* _estimate_cost, in cents.
cost_map(action_type) ==
    CASE action_type = "send_email"         -> 10
      [] action_type = "send_sms"           -> 15
      [] action_type = "query_crm"          -> 5
      [] action_type = "route_to_human"     -> 500
      [] action_type = "automated_outreach" -> 20
      [] action_type = "direct_call"        -> 100
      [] action_type = "update_record"      -> 2
      [] OTHER                              -> 50

estimate_cost(actions) ==
    SumSeq([i \in 1..Len(actions) |-> cost_map(actions[i].action_type)])

\* The rule index generate settles on.
effective_index(attempt_number, accumulated_constraints) ==
    LET rule_index ==
            IF attempt_number - 1 < NumRules - 1
            THEN attempt_number - 1 ELSE NumRules - 1
        free == { i \in rule_index..(NumRules - 1) :
                    ~would_violate_accumulated(i, accumulated_constraints) }
    IN  IF free # {}
        THEN CHOOSE i \in free : \A j \in free : i <= j
        ELSE NumRules - 1

\* RuleBasedStrategyGenerator.generate
generate(proposal_id, intent, target, accumulated_constraints, prior_proposals, attempt_number) ==
    LET actions == rule_actions(
                       effective_index(attempt_number, accumulated_constraints),
                       target)
    IN  [ id             |-> proposal_id,
          intent_id      |-> intent.id,
          attempt_number |-> attempt_number,
          actions        |-> actions,
          estimated_cost |-> estimate_cost(actions) ]

-----------------------------------------------------------------------------
(* Values the checked runs draw their inputs from                          *)

\* models/world.py EntityState, with the properties the rules read.
Entity(geo, consent, hour, contacted, created, obligations) ==
    [ geo            |-> geo,
      gdpr_consent   |-> consent,
      local_hour     |-> hour,
      last_contacted |-> contacted,
      contact_method |-> "",
      created_at     |-> created,
      confidence     |-> 100,
      obligations    |-> obligations ]

\* models/strategy.py PlannedAction.
Action(type, target, requires_consent, risk) ==
    [ action_type      |-> type,
      target           |-> target,
      requires_consent |-> requires_consent,
      risk_score       |-> risk,
      updates          |-> {} ]

\* models/strategy.py StrategyProposal.
Proposal(id, intent_id, attempt, actions, cost) ==
    [ id             |-> id,
      intent_id      |-> intent_id,
      attempt_number |-> attempt,
      actions        |-> actions,
      estimated_cost |-> cost ]

\* models/intent.py Constraint with its PolicyActivation.
Constraint(name, type, ceiling, always, schedule) ==
    [ name       |-> name,
      type       |-> type,
      ceiling    |-> ceiling,
      activation |-> [always |-> always, schedule |-> schedule] ]

\* models/intent.py IntentVector; sla_minutes is the SLA the objective
\* text states ("within N minutes"), -1 when it states none.
Intent(id, priority, hard, soft, active, sla) ==
    [ id               |-> id,
      priority         |-> priority,
      hard_constraints |-> hard,
      soft_constraints |-> soft,
      active           |-> active,
      sla_minutes      |-> sla ]

H_gdpr       == Constraint("gdpr_consent_required", HARD, -1, TRUE, "")
H_hours      == Constraint("no_contact_outside_hours", HARD, -1, TRUE, "")
H_cost100    == Constraint("cost_ceiling", HARD, 10000, TRUE, "")
H_gdpr_off   == Constraint("gdpr_consent_required", HARD, -1, FALSE, "nomatch")
H_gdpr_on    == Constraint("gdpr_consent_required", HARD, -1, FALSE, "match")
H_gdpr_bad   == Constraint("gdpr_consent_required", HARD, -1, FALSE, "invalid")
S_cost50     == Constraint("cost_ceiling", SOFT, 5000, TRUE, "")
S_gdpr       == Constraint("gdpr_consent_required", SOFT, -1, TRUE, "")
S_brand      == Constraint("brand_tone", SOFT, -1, TRUE, "")

-----------------------------------------------------------------------------
(* Direct calls of evaluate_proposal (POST /governance/evaluate)           *)

GovEntities ==
    { << >> } \cup
    { [e \in {"e1"} |-> Entity(g[1], g[2], g[3], FALSE, << 0 >>, <<"i1">>)] :
        g \in { <<"EU", FALSE, 14>>, <<"de", TRUE, 14>>,
                <<"us", FALSE, 23>>, <<"EU", TRUE, 23>> } }

GovActionLists ==
    { << >>,
      << Action("send_email", "e1", FALSE, 3) >>,
      << Action("query_crm", "e1", FALSE, 1),
         Action("send_email", "e1", TRUE, 3) >>,
      << Action("route_to_human", "e1", FALSE, 2) >>,
      << Action("route_to_human", "e1", FALSE, 6) >>,
      << Action("update_record", "e1", FALSE, 8) >>,
      << Action("send_email", "e1", FALSE, 9) >> }

GovProposals ==
    { Proposal(1, "i1", 1, a, c) : a \in GovActionLists, c \in {10, 7500} }

GovServingIntents ==
    { Intent("i1", 50, h, s, TRUE, 10) :
        h \in { << >>, <<H_gdpr>>, <<H_hours>>, <<H_cost100>>, <<H_gdpr_off>>,
                <<H_gdpr_on, H_hours>>, <<H_gdpr_bad>> },
        s \in { << >>, <<S_cost50>>, <<S_gdpr, S_brand>> } }

GovOtherIntents ==
    { Intent("i2", p, h, s, a, -1) :
        p \in {20, 50, 80},
        h \in { << >>, <<H_gdpr>>, <<H_cost100>> },
        s \in { << >>, <<S_cost50>> },
        a \in BOOLEAN }

GovIntentLists ==
    { <<i>> : i \in GovServingIntents } \cup
    { <<i, j>> : i \in GovServingIntents, j \in GovOtherIntents }

\* A type registered through register_action_type, with two phases.
PhasedSpec ==
    [ default_authorization_level |-> 1,
      phase_config |->
          << [ phase_name |-> "plan", required |-> TRUE,
               default_authorization_level |-> 0,
               escalation_on_deviation |-> FALSE ],
             [ phase_name |-> "commit", required |-> FALSE,
               default_authorization_level |-> 1,
               escalation_on_deviation |-> TRUE ] >> ]

GovActionTypeIds == {"", "task_execution", "policy_proposal", "phased"}

InitGov ==
    /\ gIn \in [ proposal       : GovProposals,
                 intents        : GovIntentLists,
                 entities       : GovEntities,
                 action_type_id : GovActionTypeIds ]
    /\ gOut = << >>
    /\ registry = BASELINE_ACTION_TYPES
    /\ xIn = << >>
    /\ xOut = "none"
    /\ xResult = << >>
    /\ world = << >>
    /\ handlerLog = << >>
    /\ cga = << >>
    /\ uuid = 0
    /\ ledger = << >>
    /\ writers = << >>
    /\ lOut = << >>
    /\ tampered = << >>
    /\ tick = << >>
    /\ dampening = << >>
    /\ config = << >>
    /\ escalation_queue = << >>
    /\ registered = << >>
    /\ drift_events = << >>
    /\ heuristics = << >>
    /\ cycles = << >>
    /\ executors = DefaultExecutors
    /\ run = NoRun
    /\ policy_proposals = << >>
    /\ callers = << >>

\* GovernanceKernel.register_action_type
RegisterActionType ==
    /\ gOut = << >>
    /\ "phased" \notin DOMAIN registry
    /\ registry' = [t \in DOMAIN registry \cup {"phased"} |->
                       IF t = "phased" THEN PhasedSpec ELSE registry[t]]
    /\ UNCHANGED <<gIn, gOut, execVars, worldVars, cgaVars, ledgerVars, reconVars>>

\* One call of evaluate_proposal on the drawn arguments.
Evaluate ==
    /\ gOut = << >>
    /\ gOut' = << evaluate_proposal(1, gIn.proposal, gIn.intents,
                      gIn.entities, registry, gIn.action_type_id) >>
    /\ UNCHANGED <<gIn, registry, execVars, worldVars, cgaVars, ledgerVars,
                   reconVars>>

NextGov == RegisterActionType \/ Evaluate

SpecGov == InitGov /\ [][NextGov]_vars

\* The hard constraints of active intents that are active at the evaluation
\* time.
ActiveHardConstraints(intents) ==
    { c \in UNION { Range(intents[i].hard_constraints) :
                      i \in { j \in 1..Len(intents) : intents[j].active } } :
        is_constraint_active(c) }

\* C2 (first half): an APPROVED decision is never issued for a proposal
\* that trips an active hard constraint of an active intent against the
\* supplied world model.
C2_NoActiveHardConstraintTripped ==
    (gOut # << >> /\ Head(gOut).verdict = APPROVED) =>
        \A c \in ActiveHardConstraints(gIn.intents) :
            ~check_constraint_violation(gIn.proposal, c, gIn.entities)

\* C2: for every APPROVED decision, no active hard constraint of an active
\* intent is tripped by the proposal, and no such hard constraint's name
\* appears in the decision's violated_constraints (intents whose hard and
\* soft constraints share a name included).
C2_HardConstraintSafety ==
    (gOut # << >> /\ Head(gOut).verdict = APPROVED) =>
        \A c \in ActiveHardConstraints(gIn.intents) :
            /\ ~check_constraint_violation(gIn.proposal, c, gIn.entities)
            /\ c.name \notin Range(Head(gOut).violated_constraints)

\* C14: every decision whose authorization_level is L4, whether L4 comes
\* from the maximum risk score or from the action type's
\* default_authorization_level winning over a lower risk-derived level, has
\* verdict ESCALATE and never APPROVED.
C14_L4AlwaysEscalates ==
    (gOut # << >> /\ Head(gOut).authorization_level = 4) =>
        Head(gOut).verdict = ESCALATE

-----------------------------------------------------------------------------
(* evaluate_proposal over every risk score and every action type           *)

\* models/strategy.py PlannedAction.risk_score: Field(ge=1, le=10)
RiskScores == 1..10

\* Proposals of up to two actions at every risk score, for every baseline
\* action type, for "phased" (registered by RegisterActionType) and for a
\* type that is never registered.
InitRisk ==
    /\ gIn \in [ proposal :
                    { Proposal(1, "i1", 1, a, 10) :
                        a \in { << >> } \cup
                              { << Action(t, "e1", FALSE, r) >> :
                                  t \in {"send_email", "route_to_human"},
                                  r \in RiskScores } \cup
                              { << Action("query_crm", "e1", FALSE, q),
                                   Action("send_email", "e1", FALSE, r) >> :
                                  q \in {1, 5, 9}, r \in RiskScores } },
                 intents :
                    { << Intent("i1", 50, h, << >>, TRUE, 10) >> :
                        h \in { << >>, <<H_gdpr>> } } \cup
                    { << Intent("i1", 50, << >>, << >>, TRUE, 10), j >> :
                        j \in { o \in GovOtherIntents :
                                  o.priority = 80 /\ o.soft_constraints = << >> } },
                 entities :
                    { [e \in {"e1"} |->
                          Entity("EU", c, 14, FALSE, << 0 >>, <<"i1">>)] :
                        c \in BOOLEAN },
                 action_type_id :
                    DOMAIN BASELINE_ACTION_TYPES \cup {"", "phased", "unheard_of"} ]
    /\ gOut = << >>
    /\ registry = BASELINE_ACTION_TYPES
    /\ xIn = << >>
    /\ xOut = "none"
    /\ xResult = << >>
    /\ world = << >>
    /\ handlerLog = << >>
    /\ cga = << >>
    /\ uuid = 0
    /\ ledger = << >>
    /\ writers = << >>
    /\ lOut = << >>
    /\ tampered = << >>
    /\ tick = << >>
    /\ dampening = << >>
    /\ config = << >>
    /\ escalation_queue = << >>
    /\ registered = << >>
    /\ drift_events = << >>
    /\ heuristics = << >>
    /\ cycles = << >>
    /\ executors = DefaultExecutors
    /\ run = NoRun
    /\ policy_proposals = << >>
    /\ callers = << >>

SpecRisk == InitRisk /\ [][NextGov]_vars

\* The maximum risk score of the call's proposal (1 without actions), and
\* whether its action type passes the registry check.
max_risk_in == SeqMax([i \in 1..Len(gIn.proposal.actions) |-> gIn.proposal.actions[i].risk_score], 1)

type_known == gIn.action_type_id = "" \/ gIn.action_type_id \in DOMAIN registry

trips_none ==
    \A c \in ActiveHardConstraints(gIn.intents) :
        ~check_constraint_violation(gIn.proposal, c, gIn.entities)

risk_derived_level(r) ==
    CASE r \in 1..3  -> 0
      [] r \in 4..5  -> 1
      [] r \in 6..7  -> 2
      [] r = 8       -> 3
      [] r \in 9..10 -> 4

\* The call's proposal with every risk score below r raised to r.
raised_to(r) ==
    [gIn.proposal EXCEPT !.actions =
        [i \in 1..Len(@) |->
            [@[i] EXCEPT !.risk_score = IF @ < r THEN r ELSE @]]]

\* C17: for a fixed action_type_id (or none) the authorization_level of a
\* decision that carries one is non-decreasing in the proposal's maximum
\* risk score over 1..10, and is the higher of the risk-derived level
\* (1-3 L0, 4-5 L1, 6-7 L2, 8 L3, 9-10 L4) and the action type's
\* default_authorization_level.
C17_LevelMonotoneAndMax ==
    (gOut # << >> /\ Head(gOut).authorization_level # NoLevel) =>
        LET level == Head(gOut).authorization_level
            by_risk == risk_derived_level(max_risk_in)
            by_type == IF gIn.action_type_id = "" THEN 0
                       ELSE registry[gIn.action_type_id].default_authorization_level
        IN  /\ level = IF by_type > by_risk THEN by_type ELSE by_risk
            /\ \A r \in RiskScores :
                   LET higher == evaluate_proposal(1, raised_to(r), gIn.intents,
                                     gIn.entities, registry, gIn.action_type_id)
                   IN  higher.authorization_level # NoLevel =>
                           level <= higher.authorization_level

\* A decision whose level comes from the action type (skill_modification,
\* L2) over the lower risk-derived level of risk 4.
C17_Witness ==
    /\ gOut # << >>
    /\ gIn.action_type_id = "skill_modification"
    /\ max_risk_in = 4
    /\ Head(gOut).authorization_level = 2
    /\ Head(gOut).verdict = APPROVED

\* C18: every decision evaluate_proposal returns, the rejection for an
\* unregistered action type included, carries an uncertainty, and its
\* confidence_level lies in [0, 1] (in hundredths: 0..100).
C18_UncertaintyOnEveryDecision ==
    gOut # << >> =>
        /\ Head(gOut).uncertainty # << >>
        /\ Head(Head(gOut).uncertainty).confidence_level \in 0..100

\* C19: a call with an action_type_id that is not in the registry returns
\* REJECTED with rejection_reason unregistered_action_type and no violated
\* constraints whatever the proposal, the intents and the world model are;
\* with the type registered the call is decided by the later checks: hard
\* violations reject with their names, a maximum risk of 9 or 10 escalates,
\* and the registry reason is not returned.
C19_UnregisteredTypeRejected ==
    gOut # << >> =>
        LET d == Head(gOut) IN
        IF ~type_known
        THEN /\ d.verdict = REJECTED
             /\ d.rejection_reason = <<"unregistered_action_type">>
             /\ d.violated_constraints = << >>
        ELSE /\ d.rejection_reason # <<"unregistered_action_type">>
             /\ ~trips_none =>
                    d.verdict = REJECTED /\ d.violated_constraints # << >>
             /\ (trips_none /\ max_risk_in >= 9) => d.verdict = ESCALATE

\* A call with a type not yet registered, for a proposal that trips a hard
\* constraint and carries risk 9: rejected for the type alone.
C19_Witness ==
    /\ gOut # << >>
    /\ gIn.action_type_id = "phased"
    /\ "phased" \notin DOMAIN registry
    /\ ~trips_none
    /\ max_risk_in = 9
    /\ Head(gOut).verdict = REJECTED
    /\ Head(gOut).violated_constraints = << >>


-----------------------------------------------------------------------------
(* SpecOrder: the order of the checks of evaluate_proposal                 *)

\* Calls in which a hard violation, a maximum risk of 9 or 10 and an intent
\* conflict occur alone and together: outreach with and without
\* requires_consent, a lead with and without consent and inside and outside
\* contact hours, a second intent of lower, equal or higher priority.
InitOrder ==
    /\ gIn \in [ proposal :
                    { Proposal(1, "i1", 1, a, c) :
                        a \in { << >> } \cup
                              { << Action("send_email", "e1", q, r) >> :
                                  q \in BOOLEAN, r \in {3, 8, 9} } \cup
                              { << Action("query_crm", "e1", FALSE, 1),
                                   Action("send_email", "e1", TRUE, r) >> :
                                  r \in {3, 10} },
                        c \in {10, 7500} },
                 intents :
                    { << Intent("i1", 50, h, s, TRUE, 10) >> :
                        h \in { << >>, <<H_gdpr, H_hours>> },
                        s \in { << >>, <<S_cost50>>, <<S_gdpr, S_brand>> } } \cup
                    { << Intent("i1", 50, h, s, TRUE, 10),
                         Intent("i2", p, o, << >>, a, -1) >> :
                        h \in { << >>, <<H_gdpr, H_hours>> },
                        s \in { << >>, <<S_cost50>> },
                        p \in {20, 50, 80},
                        o \in { <<H_gdpr>>, <<H_gdpr_off>> },
                        a \in BOOLEAN },
                 entities :
                    { [e \in {"e1"} |->
                          Entity("EU", g[1], g[2], FALSE, << 0 >>, <<"i1">>)] :
                        g \in { <<TRUE, 14>>, <<FALSE, 14>>, <<FALSE, 23>> } },
                 action_type_id : {"", "policy_proposal", "phased"} ]
    /\ gOut = << >>
    /\ registry = BASELINE_ACTION_TYPES
    /\ xIn = << >>
    /\ xOut = "none"
    /\ xResult = << >>
    /\ world = << >>
    /\ handlerLog = << >>
    /\ cga = << >>
    /\ uuid = 0
    /\ ledger = << >>
    /\ writers = << >>
    /\ lOut = << >>
    /\ tampered = << >>
    /\ tick = << >>
    /\ dampening = << >>
    /\ config = << >>
    /\ escalation_queue = << >>
    /\ registered = << >>
    /\ drift_events = << >>
    /\ heuristics = << >>
    /\ cycles = << >>
    /\ executors = DefaultExecutors
    /\ run = NoRun
    /\ policy_proposals = << >>
    /\ callers = << >>

SpecOrder == InitOrder /\ [][NextGov]_vars

\* The names of the active hard and soft constraints the call's proposal
\* violates, in the order of the active constraints.
hard_names ==
    violations_of(HARD, gIn.proposal, get_active_constraints(gIn.intents), gIn.entities)

soft_names ==
    violations_of(SOFT, gIn.proposal, get_active_constraints(gIn.intents), gIn.entities)

\* Some other active intent of strictly higher priority than the serving
\* intent has a hard constraint the proposal violates on an empty world
\* model.
outranked ==
    \E s \in 1..Len(gIn.intents), o \in 1..Len(gIn.intents) :
        /\ gIn.intents[s].id = gIn.proposal.intent_id
        /\ gIn.intents[o].id # gIn.proposal.intent_id
        /\ gIn.intents[o].active
        /\ gIn.intents[o].priority > gIn.intents[s].priority
        /\ \E c \in 1..Len(gIn.intents[o].hard_constraints) :
               check_constraint_violation(gIn.proposal,
                   gIn.intents[o].hard_constraints[c], << >>)

only_active(intents) ==
    [ k \in 1..Len(intents) |->
        [ intents[k] EXCEPT
            !.hard_constraints =
                IF intents[k].active
                THEN SelectSeq(@, is_constraint_active) ELSE << >>,
            !.soft_constraints =
                IF intents[k].active
                THEN SelectSeq(@, is_constraint_active) ELSE << >> ] ]

\* C31: only constraints of active intents that are active at the
\* evaluation time (always, or the schedule matches; a schedule that does
\* not parse is inactive) take part in a decision: the decision is the one
\* the call returns without the other constraints, and no REJECTED decision
\* names a constraint that is not active.
C31_OnlyActiveConstraintsDecide ==
    gOut # << >> =>
        \E without \in { evaluate_proposal(1, gIn.proposal, only_active(gIn.intents), gIn.entities, registry, gIn.action_type_id) } :
            /\ Head(gOut).verdict = without.verdict
            /\ Head(gOut).violated_constraints = without.violated_constraints
            /\ Head(gOut).rejection_reason = without.rejection_reason

-----------------------------------------------------------------------------
(* SpecPhase: direct calls of GovernanceKernel.evaluate_multi_phase        *)

MaxPhases == 2

\* models/governance.py PhaseConfig
PhaseConfig(phase_name, required, default_authorization_level, escalation_on_deviation) ==
    [ phase_name                  |-> phase_name,
      required                    |-> required,
      default_authorization_level |-> default_authorization_level,
      escalation_on_deviation     |-> escalation_on_deviation ]

\* The k-th phase of a list is named after its place.
PhaseLists ==
    UNION { { [ k \in 1..n |-> PhaseConfig(k, f[k][1], f[k][2], f[k][3]) ] :
                f \in [ 1..n -> BOOLEAN \X {1, 3} \X BOOLEAN ] } :
            n \in 1..MaxPhases }

PhaseActionLists ==
    { << Action("query_crm", "e1", FALSE, 1) >>,
      << Action("send_email", "e1", TRUE, 3) >> }

PhaseIntentLists ==
    { << Intent("i1", 50, h, << >>, TRUE, 10) >> :
        h \in { << >>, <<H_gdpr>>, <<H_gdpr_off>> } }

PhaseEntities ==
    { [e \in {"e1"} |-> Entity("EU", c, 14, FALSE, << 0 >>, <<"i1">>)] :
        c \in BOOLEAN }

InitPhase ==
    /\ gIn \in [ phases   : PhaseLists,
                 proposal : { Proposal(1, "i1", 1, a, 10) : a \in PhaseActionLists },
                 intents  : PhaseIntentLists,
                 entities : PhaseEntities ]
    /\ gOut = << >>
    /\ registry = BASELINE_ACTION_TYPES
    /\ xIn = << >>
    /\ xOut = "none"
    /\ xResult = << >>
    /\ world = << >>
    /\ handlerLog = << >>
    /\ cga = << >>
    /\ uuid = 0
    /\ ledger = << >>
    /\ writers = << >>
    /\ lOut = << >>
    /\ tampered = << >>
    /\ tick = << >>
    /\ dampening = << >>
    /\ config = << >>
    /\ escalation_queue = << >>
    /\ registered = << >>
    /\ drift_events = << >>
    /\ heuristics = << >>
    /\ cycles = << >>
    /\ executors = DefaultExecutors
    /\ run = NoRun
    /\ policy_proposals = << >>
    /\ callers = << >>

\* One call of evaluate_multi_phase on the drawn arguments: gOut holds the
\* call's return value in a one-element sequence.
EvaluateMultiPhase ==
    /\ gOut = << >>
    /\ gOut' = << evaluate_multi_phase(gIn.phases, gIn.proposal, gIn.intents,
                                       gIn.entities) >>
    /\ UNCHANGED <<gIn, registry, execVars, worldVars, cgaVars, ledgerVars,
                   reconVars>>

NextPhase == EvaluateMultiPhase

SpecPhase == InitPhase /\ [][NextPhase]_vars

\* C37: the results of evaluate_multi_phase are those of the phases in
\* declaration order; a phase with escalation_on_deviation that follows an
\* APPROVED phase has level max(default, L2), every other phase its default
\* level; the evaluation stops at the first phase that is not APPROVED,
\* required or not, so that at most the last result is not APPROVED; when
\* every phase passes there is one result per configured phase.
C37_PhasesStopAtFirstFailure ==
    gOut # << >> =>
        LET results == Head(gOut) IN
        /\ Len(results) >= 1
        /\ Len(results) <= Len(gIn.phases)
        /\ \A k \in 1..Len(results) :
               /\ results[k].phase_name = gIn.phases[k].phase_name
               /\ results[k].verdict = APPROVED =>
                      results[k].authorization_level =
                          IF /\ gIn.phases[k].escalation_on_deviation
                             /\ \E j \in 1..(k - 1) : results[j].verdict = APPROVED
                             /\ gIn.phases[k].default_authorization_level < 2
                          THEN 2
                          ELSE gIn.phases[k].default_authorization_level
               /\ results[k].verdict # APPROVED =>
                      results[k].authorization_level =
                          gIn.phases[k].default_authorization_level
        /\ \A k \in 1..(Len(results) - 1) : results[k].verdict = APPROVED
        /\ results[Len(results)].verdict = APPROVED =>
               Len(results) = Len(gIn.phases)

-----------------------------------------------------------------------------
(* SpecPure: evaluate_proposal called again and again on one kernel        *)

MaxCalls == 2

\* Mutant: every decision gets the same id.
new_decision_id_fixed(last_id) == 1

\* decision_id = f"gov_{uuid4().hex[:12]}": an id that was not drawn before
new_decision_id(last_id) == last_id + 1

InitPure ==
    /\ gIn \in [ proposal :
                    { Proposal(1, "i1", 1, a, 10) :
                        a \in { << Action("send_email", "e1", TRUE, 3) >>,
                                << Action("query_crm", "e1", FALSE, 1) >>,
                                << Action("send_email", "e1", FALSE, 9) >> } },
                 intents :
                    { << Intent("i1", 50, h, s, TRUE, 10) >> :
                        h \in { << >>, <<H_gdpr, H_hours>> },
                        s \in { << >>, <<S_cost50>> } } \cup
                    { << Intent("i1", 50, << >>, << >>, TRUE, 10),
                         Intent("i2", 80, <<H_gdpr>>, << >>, TRUE, -1) >> },
                 entities :
                    { [e \in {"e1"} |->
                          Entity("EU", c, 14, FALSE, << 0 >>, <<"i1">>)] :
                        c \in BOOLEAN },
                 action_type_id : {"", "policy_proposal", "phased"} ]
    /\ gOut = << >>
    /\ registry = BASELINE_ACTION_TYPES
    /\ xIn = << >>
    /\ xOut = "none"
    /\ xResult = << >>
    /\ world = << >>
    /\ handlerLog = << >>
    /\ cga = << >>
    /\ uuid = 0
    /\ ledger = << >>
    /\ writers = << >>
    /\ lOut = << >>
    /\ tampered = << >>
    /\ tick = << >>
    /\ dampening = << >>
    /\ config = << >>
    /\ escalation_queue = << >>
    /\ registered = << >>
    /\ drift_events = << >>
    /\ heuristics = << >>
    /\ cycles = << >>
    /\ executors = DefaultExecutors
    /\ run = NoRun
    /\ policy_proposals = << >>
    /\ callers = << >>

\* register_action_type, before, between or after the calls
PureRegisterActionType ==
    /\ "phased" \notin DOMAIN registry
    /\ registry' = [t \in DOMAIN registry \cup {"phased"} |->
                       IF t = "phased" THEN PhasedSpec ELSE registry[t]]
    /\ UNCHANGED <<gIn, gOut, execVars, worldVars, cgaVars, ledgerVars, reconVars>>

\* One more call of evaluate_proposal with the same arguments.  gOut keeps
\* every decision returned, next to the registry its call ran against.
EvaluateAgain ==
    /\ Len(gOut) < MaxCalls
    /\ gOut' = Append(gOut,
           [ decision     |-> evaluate_proposal(new_decision_id(uuid),
                                  gIn.proposal, gIn.intents, gIn.entities,
                                  registry, gIn.action_type_id),
             action_types |-> registry ])
    /\ uuid' = new_decision_id(uuid)
    /\ UNCHANGED <<gIn, registry, execVars, worldVars, cga, ledgerVars,
                   reconVars>>

NextPure == PureRegisterActionType \/ EvaluateAgain

SpecPure == InitPure /\ [][NextPure]_vars

\* Two decisions that differ at most in their id.
same_but_id(d1, d2) == [d1 EXCEPT !.id = 0] = [d2 EXCEPT !.id = 0]

-----------------------------------------------------------------------------
(* Direct calls of ExecutionFabric.execute                                 *)

MaxExecActions == 2

ExecActionPool ==
    { Action("send_email", "e1", FALSE, 3),
      Action("route_to_human", "e1", FALSE, 2),
      Action("query_crm", "e1", FALSE, 1),
      [Action("update_record", "e1", FALSE, 2) EXCEPT !.updates = {"gdpr_consent"}],
      [Action("update_record", "e1", FALSE, 2) EXCEPT !.updates = {"last_contacted"}],
      Action("flaky_tool", "e1", FALSE, 2),
      Action("unknown_tool", "e1", FALSE, 2),
      Action("send_email", "e9", FALSE, 3) }

ExecActionLists ==
    UNION { [1..n -> ExecActionPool] : n \in 0..MaxExecActions }

ExecEntities ==
    { [e \in {"e1"} |-> Entity("EU", c, 14, FALSE, << 0 >>, <<"i1">>)] : c \in BOOLEAN }

\* The decision handed to execute: any verdict, for this proposal or for
\* another one.
ExecDecisions ==
    { [ id |-> 1, proposal_id |-> pid, verdict |-> v ] :
        pid \in {1, 2}, v \in GovernanceVerdict }

InitExec ==
    /\ xIn \in [ proposal : { Proposal(1, "i1", 1, a, 10) : a \in ExecActionLists },
                 decision : ExecDecisions,
                 entities : ExecEntities ]
    /\ world = xIn.entities
    /\ handlerLog = << >>
    /\ xOut = "none"
    /\ xResult = << >>
    /\ gIn = << >>
    /\ gOut = << >>
    /\ registry = BASELINE_ACTION_TYPES
    /\ cga = << >>
    /\ uuid = 0
    /\ ledger = << >>
    /\ writers = << >>
    /\ lOut = << >>
    /\ tampered = << >>
    /\ tick = << >>
    /\ dampening = << >>
    /\ config = << >>
    /\ escalation_queue = << >>
    /\ registered = << >>
    /\ drift_events = << >>
    /\ heuristics = << >>
    /\ cycles = << >>
    /\ executors = DefaultExecutors
    /\ run = NoRun
    /\ policy_proposals = << >>
    /\ callers = << >>

\* One call execute(proposal, governance_decision) on the fabric's world model.
Execute ==
    /\ xOut = "none"
    /\ LET r == execute(xIn.proposal, xIn.decision, world, handlerLog) IN
       /\ xOut' = IF r.raised THEN "raised" ELSE "returned"
       /\ xResult' = r.result
       /\ world' = r.entities
       /\ handlerLog' = r.log
    /\ UNCHANGED <<govVars, xIn, executors, cgaVars, ledgerVars, reconVars>>

NextExec == Execute

SpecExec == InitExec /\ [][NextExec]_vars

\* C1: execute returns an ExecutionResult only if the verdict is APPROVED;
\* on REJECTED or ESCALATE the call fails before any handler is invoked and
\* leaves the world model unchanged.
C1_NoExecutionWithoutApproval ==
    /\ (xOut = "returned" => xIn.decision.verdict = APPROVED)
    /\ (xResult # << >> => xIn.decision.verdict = APPROVED)
    /\ (xIn.decision.verdict \in {REJECTED, ESCALATE} =>
           /\ xOut \in {"none", "raised"}
           /\ handlerLog = << >>
           /\ world = xIn.entities)

\* An unapproved call that failed although its proposal holds a contact
\* action on a known entity.
C1_Witness ==
    /\ xOut = "raised"
    /\ xIn.decision.verdict = ESCALATE
    /\ \E i \in 1..Len(xIn.proposal.actions) :
           /\ xIn.proposal.actions[i].action_type \in ContactTypes
           /\ xIn.proposal.actions[i].target \in DOMAIN xIn.entities

\* The entries execute records for the actions that satisfy test, in the
\* order of the proposal.
entries_of(actions, test(_)) ==
    LET picked == SelectSeq(actions, test) IN
    [ k \in 1..Len(picked) |->
        [ action_type |-> picked[k].action_type, target |-> picked[k].target ] ]

\* An action fails when no handler is registered for its type or when the
\* handler raises.
has_handler(action) == action.action_type \in DOMAIN executors

handler_fails(action) ==
    ~has_handler(action) \/ executors[action.action_type] = "raises"

handler_succeeds(action) == ~handler_fails(action)

without_error(entries) ==
    [ k \in 1..Len(entries) |->
        [ action_type |-> entries[k].action_type, target |-> entries[k].target ] ]

-----------------------------------------------------------------------------
(* strategy/cga_loop.py: CGALoop.run                                       *)

NoCGA ==
    [ pc |-> "idle", generator |-> "", intent |-> << >>, intents |-> << >>,
      drift |-> << >>, max_attempts |-> 0, attempt |-> 0,
      proposals |-> << >>, decisions |-> << >>,
      accumulated_constraints |-> << >>, final_verdict |-> "pending",
      approved_proposal |-> << >>, execution_result |-> << >>,
      total_attempts |-> 0, escalated |-> FALSE, dispatched |-> << >> ]

\* The locals of run before the loop is entered.  intent and drift are kept
\* as one-element sequences.
cga_begin(generator, intent, drift_event, intents, max_attempts) ==
    [ NoCGA EXCEPT !.pc = "loop", !.generator = generator,
                   !.intent = <<intent>>, !.intents = intents,
                   !.drift = <<drift_event>>, !.max_attempts = max_attempts ]

\* Proposals a pluggable StrategyGenerator may return for one attempt: any
\* of these plans for the drifting entity.
AnyActionLists(target) ==
    { << >>,
      rule_direct_automated_outreach(target),
      rule_query_then_outreach(target),
      rule_human_handoff(target),
      << Action("send_email", target, FALSE, 9) >>,
      << Action("route_to_human", target, FALSE, 6) >>,
      << Action("flaky_tool", target, FALSE, 2) >> }

\* self.strategy_gen.generate(...): the proposals the generator in use may
\* return for the attempt.
generated_proposals(c, proposal_id, attempt_number) ==
    IF c.generator = "rule"
    THEN { generate(proposal_id, Head(c.intent), Head(c.drift).entity_id,
                    c.accumulated_constraints, c.proposals, attempt_number) }
    ELSE { [ id             |-> proposal_id,
             intent_id      |-> Head(c.intent).id,
             attempt_number |-> attempt_number,
             actions        |-> a,
             estimated_cost |-> estimate_cost(a) ] :
           a \in AnyActionLists(Head(c.drift).entity_id) }

\* Mutant: the loop runs one round too many.
loop_continues_off_by_one(attempt, max_attempts) == attempt <= max_attempts

\* while attempt < self.max_attempts
loop_continues(attempt, max_attempts) == attempt < max_attempts

\* Mutant: every verdict but REJECTED is dispatched.
dispatches_unless_rejected(decision) == decision.verdict # REJECTED

\* if decision.verdict == GovernanceVerdict.APPROVED
dispatches(decision) == decision.verdict = APPROVED

\* Mutant: an ESCALATE verdict is handled like a rejection.
escalates_never(decision) == FALSE

\* elif decision.verdict == GovernanceVerdict.ESCALATE
escalates(decision) == decision.verdict = ESCALATE

\* The routing of one iteration of the loop on the verdict of its decision:
\* dispatch to the fabric on approval, stop on escalation, accumulate the
\* rejection otherwise.  c1 is the locals with the proposal and the decision
\* recorded.
route_verdict(c1, proposal, decision, entities, log) ==
    IF dispatches(decision)
    THEN LET r == execute(proposal, decision, entities, log) IN
         [ cga |-> [c1 EXCEPT
                    !.pc = IF r.raised THEN "raised" ELSE "done",
                    !.final_verdict = "approved",
                    !.approved_proposal = <<proposal>>,
                    !.execution_result = r.result,
                    !.total_attempts = c1.attempt,
                    !.escalated = FALSE,
                    !.dispatched =
                        Append(@, [proposal |-> proposal, decision |-> decision])],
           entities |-> r.entities,
           log      |-> r.log ]
    ELSE IF escalates(decision)
    THEN [ cga |-> [c1 EXCEPT !.pc = "done",
                              !.final_verdict = "escalated",
                              !.total_attempts = c1.attempt,
                              !.escalated = TRUE],
           entities |-> entities,
           log      |-> log ]
    ELSE [ cga |-> [c1 EXCEPT !.accumulated_constraints =
                       Append(@, [ source     |-> decision.id,
                                   constraint |-> decision.rejection_reason ])],
           entities |-> entities,
           log      |-> log ]

\* The body of one iteration of the loop for the proposal the generator
\* returned and its decision: record both, route on the verdict.  The
\* locals, the world model and the handler log afterwards.
cga_round(c, proposal, decision, entities, log) ==
    route_verdict([c EXCEPT !.attempt   = c.attempt + 1,
                            !.proposals = Append(@, proposal),
                            !.decisions = Append(@, decision)],
                  proposal, decision, entities, log)

\* Mutant: the exhausted budget is not flagged as an escalation.
cga_exhausted_unflagged(c) ==
    [c EXCEPT !.pc = "done",
              !.final_verdict = "escalated",
              !.total_attempts = c.attempt]

\* The else branch of the loop: the budget is exhausted without approval.
cga_exhausted(c) ==
    [c EXCEPT !.pc = "done",
              !.final_verdict = "escalated",
              !.total_attempts = c.attempt,
              !.escalated = TRUE]

\* One iteration of the loop: generate, evaluate, route on the verdict
\* (dispatching to the fabric on approval).
CGARound ==
    /\ cga.pc = "loop"
    /\ loop_continues(cga.attempt, cga.max_attempts)
    /\ \E proposal \in generated_proposals(cga, uuid + 1, cga.attempt + 1) :
       \E r \in { cga_round(cga, proposal,
                      evaluate_proposal(uuid + 2, proposal, cga.intents, world,
                                        registry, ""),
                      world, handlerLog) } :
           /\ cga' = r.cga
           /\ world' = r.entities
           /\ handlerLog' = r.log
    /\ uuid' = uuid + 2
    /\ UNCHANGED <<govVars, execVars, ledgerVars, reconVars>>

\* The else branch of the loop: the budget is exhausted without approval.
CGAExhausted ==
    /\ cga.pc = "loop"
    /\ ~loop_continues(cga.attempt, cga.max_attempts)
    /\ cga' = cga_exhausted(cga)
    /\ UNCHANGED <<uuid, worldVars, govVars, execVars, ledgerVars, reconVars>>

-----------------------------------------------------------------------------
(* models/lineage.py LineageRecord; cga_loop.py build_lineage_record       *)

\* WorldModelStore.get_state_snapshot (last_reconciled is left out)
get_state_snapshot(entities, events) ==
    [ entities |-> entities, drift_events |-> events ]

\* The fields of LineageRecord in declaration order (model_dump order).
LineageFields ==
    << "id", "cycle_id", "intent", "drift_detected", "drift_severity",
       "world_state_snapshot", "proposals", "governance_decisions",
       "final_approved_proposal", "execution_result", "execution_success",
       "total_attempts", "escalated_to_human", "human_authorization_token",
       "resolved_at", "resolution_duration_seconds", "conflicting_intents",
       "priority_override_applied", "deprioritized_intent",
       "deprioritization_rationale", "uncertainty", "artifact_provenance",
       "signature", "prior_record_hash" >>

\* CGAResult.build_lineage_record.  drift_detected is the drifting entity
\* the description names; Optional fields are sequences of length 0 or 1;
\* the joined names of deprioritized_intent are kept as the list of names.
build_lineage_record(result, record_id, cycle_id, world_state_snapshot, now) ==
    LET Deprioritizes(d) ==
            d.verdict = APPROVED /\ d.violated_constraints # << >>
        overriding == SelectSeq(result.decisions, Deprioritizes)
        serving    == Head(result.intent)
    IN  [ id                          |-> record_id,
          cycle_id                    |-> cycle_id,
          intent                      |-> serving,
          drift_detected              |-> Head(result.drift).entity_id,
          drift_severity              |-> Head(result.drift).severity,
          world_state_snapshot        |-> world_state_snapshot,
          proposals                   |-> result.proposals,
          governance_decisions        |-> result.decisions,
          final_approved_proposal     |->
              IF result.approved_proposal # << >>
              THEN << Head(result.approved_proposal).id >> ELSE << >>,
          execution_result            |-> result.execution_result,
          execution_success           |->
              IF result.execution_result # << >>
              THEN Head(result.execution_result).success ELSE FALSE,
          total_attempts              |-> result.total_attempts,
          escalated_to_human          |-> result.escalated,
          human_authorization_token   |-> << >>,
          resolved_at                 |-> << now >>,
          resolution_duration_seconds |-> << >>,
          conflicting_intents         |-> << >>,
          priority_override_applied   |-> overriding # << >>,
          deprioritized_intent        |->
              IF overriding # << >>
              THEN overriding[Len(overriding)].violated_constraints
              ELSE << >>,
          deprioritization_rationale  |->
              IF overriding # << >>
              THEN << serving.id, serving.priority >> ELSE << >>,
          uncertainty                 |-> << >>,
          artifact_provenance         |-> << >>,
          signature                   |-> << >>,
          prior_record_hash           |-> << >> ]

-----------------------------------------------------------------------------
(* Direct calls of CGALoop.run                                             *)

MaxAttempts == 4

CGAEntities ==
    { << >> } \cup
    { [e \in {"e1"} |-> Entity(g[1], g[2], g[3], FALSE, << 0 >>, <<"i1">>)] :
        g \in { <<"EU", FALSE, 14>>, <<"EU", FALSE, 23>>, <<"EU", TRUE, 14>> } }

CGAIntents ==
    { Intent("i1", 50, h, << >>, TRUE, 10) :
        h \in { << >>, <<H_gdpr>>, <<H_gdpr, H_hours>>,
                <<H_gdpr, Constraint("cost_ceiling", HARD, 100, TRUE, "")>> } }

\* reconciler/loop.py DriftEvent.to_dict
DriftEvent(entity_id, intent_id, severity) ==
    [ entity_id |-> entity_id, intent_id |-> intent_id, severity |-> severity ]

InitCGA ==
    /\ world \in CGAEntities
    /\ handlerLog = << >>
    /\ \E g \in {"rule", "any"}, i \in CGAIntents, m \in 0..MaxAttempts :
           cga = cga_begin(g, i, DriftEvent("e1", "i1", 9), <<i>>, m)
    /\ uuid = 0
    /\ registry = BASELINE_ACTION_TYPES
    /\ gIn = << >>
    /\ gOut = << >>
    /\ xIn = << >>
    /\ xOut = "none"
    /\ xResult = << >>
    /\ ledger = << >>
    /\ writers = << >>
    /\ lOut = << >>
    /\ tampered = << >>
    /\ tick = << >>
    /\ dampening = << >>
    /\ config = << >>
    /\ escalation_queue = << >>
    /\ registered = << >>
    /\ drift_events = << >>
    /\ heuristics = << >>
    /\ cycles = << >>
    /\ executors = DefaultExecutors
    /\ run = NoRun
    /\ policy_proposals = << >>
    /\ callers = << >>

NextCGA == CGARound \/ CGAExhausted

SpecCGA == InitCGA /\ [][NextCGA]_vars

IsApprovedDecision(d) == d.verdict = APPROVED

\* C3: in a CGA cycle the executor is invoked at most once, only with a
\* proposal and the APPROVED decision issued for that proposal; a result
\* with an execution_result holds exactly one APPROVED decision, the record's
\* final_approved_proposal is that decision's proposal_id, and no proposal
\* whose decision was REJECTED or ESCALATE is dispatched.
C3_SingleApprovedDispatch ==
    /\ Len(cga.dispatched) <= 1
    /\ (handlerLog # << >> => Len(cga.dispatched) = 1)
    /\ \A i \in 1..Len(cga.dispatched) :
           LET d == cga.dispatched[i] IN
           /\ d.decision.verdict = APPROVED
           /\ d.decision.proposal_id = d.proposal.id
           /\ \E k \in 1..Len(cga.decisions) :
                  /\ cga.proposals[k] = d.proposal
                  /\ cga.decisions[k] = d.decision
    /\ \A k \in 1..Len(cga.decisions) :
           cga.decisions[k].verdict \in {REJECTED, ESCALATE} =>
               \A i \in 1..Len(cga.dispatched) :
                   cga.dispatched[i].proposal.id # cga.proposals[k].id
    /\ (cga.execution_result # << >> =>
           LET rec == build_lineage_record(cga, 0, 0, get_state_snapshot(world, << >>), 0)
               approved == SelectSeq(rec.governance_decisions, IsApprovedDecision)
           IN  /\ cga.pc = "done"
               /\ Len(approved) = 1
               /\ rec.final_approved_proposal = << Head(approved).proposal_id >>
               /\ Len(cga.dispatched) = 1
               /\ cga.dispatched[1].decision = Head(approved))

\* A cycle that executed its third proposal after two rejections.
C3_Witness ==
    /\ cga.pc = "done"
    /\ cga.execution_result # << >>
    /\ Len(cga.decisions) = 3
    /\ cga.decisions[1].verdict = REJECTED
    /\ handlerLog # << >>

\* C4: run ends after total_attempts <= max_attempts rounds; round k adds
\* one proposal (attempt number k) and one decision, so len(proposals) =
\* len(decisions) = total_attempts; when all max_attempts rounds are
\* REJECTED the result is escalated, approved_proposal is null and nothing
\* was executed.
C4_BoundedAttempts ==
    /\ cga.attempt <= cga.max_attempts
    /\ Len(cga.proposals) = cga.attempt
    /\ Len(cga.decisions) = cga.attempt
    /\ \A k \in 1..Len(cga.proposals) :
           /\ cga.proposals[k].attempt_number = k
           /\ cga.decisions[k].proposal_id = cga.proposals[k].id
    /\ (cga.pc = "loop" => ENABLED NextCGA)
    /\ cga.pc \in {"loop", "done"}
    /\ (cga.pc = "done" =>
           /\ cga.total_attempts = cga.attempt
           /\ cga.total_attempts <= cga.max_attempts
           /\ ((/\ cga.total_attempts = cga.max_attempts
                /\ \A k \in 1..Len(cga.decisions) :
                       cga.decisions[k].verdict = REJECTED) =>
                  /\ cga.escalated
                  /\ cga.final_verdict = "escalated"
                  /\ cga.approved_proposal = << >>
                  /\ cga.execution_result = << >>
                  /\ cga.dispatched = << >>
                  /\ handlerLog = << >>
                  /\ ~ENABLED NextCGA))

\* A run whose three rounds were all rejected.
C4_Witness ==
    /\ cga.pc = "done"
    /\ cga.max_attempts = 3
    /\ cga.total_attempts = 3
    /\ \A k \in 1..3 : cga.decisions[k].verdict = REJECTED
    /\ cga.escalated

\* C15: the CGA loop dispatches no proposal whose decision carries
\* authorization level L2 or L3 (or higher) without a human approval step:
\* every dispatched proposal's decision is at L0 or L1.
C15_OnlyL0L1Dispatched ==
    \A i \in 1..Len(cga.dispatched) :
        cga.dispatched[i].decision.authorization_level \in {0, 1}

\* The action pattern of a proposal: the sequence of its action types.
action_pattern(proposal) ==
    [a \in 1..Len(proposal.actions) |-> proposal.actions[a].action_type]

\* C21: in a run with the default rule ladder the proposal of attempt N has
\* an action pattern different from that of every earlier attempt, for every
\* N up to max_attempts, max_attempts greater than 3 included.
C21_NoPatternRepeated ==
    cga.generator = "rule" =>
        \A m, n \in 1..Len(cga.proposals) :
            m < n => action_pattern(cga.proposals[m]) # action_pattern(cga.proposals[n])

\* The positions of the REJECTED decisions.
rejected_positions(decisions) ==
    { k \in 1..Len(decisions) : decisions[k].verdict = REJECTED }

\* C28: in a CGA run every decision but the last is REJECTED and each
\* REJECTED decision has added one accumulated rejection naming its id; the
\* run ends at the first APPROVED decision (approved, not escalated) or at
\* the first ESCALATE decision (escalated, nothing executed); the last
\* decision of a finished run is REJECTED only when the budget is used up;
\* the final verdict of a finished run is never "pending".
C28_LoopShape ==
    cga.pc \in {"loop", "done"} =>
        LET n == Len(cga.decisions)
            last == cga.decisions[n]
        IN  /\ \A k \in 1..(n - 1) : cga.decisions[k].verdict = REJECTED
            /\ Len(cga.accumulated_constraints) =
                   Cardinality(rejected_positions(cga.decisions))
            /\ \A k \in 1..Len(cga.accumulated_constraints) :
                   cga.accumulated_constraints[k].source = cga.decisions[k].id
            /\ cga.pc = "loop" => rejected_positions(cga.decisions) = 1..n
            /\ cga.pc = "done" =>
                   /\ cga.final_verdict \in {"approved", "escalated"}
                   /\ cga.total_attempts = n
                   /\ cga.escalated <=> cga.final_verdict = "escalated"
                   /\ n > 0 /\ last.verdict = APPROVED =>
                          /\ cga.final_verdict = "approved"
                          /\ cga.approved_proposal = << cga.proposals[n] >>
                   /\ n > 0 /\ last.verdict = ESCALATE =>
                          /\ cga.escalated
                          /\ cga.dispatched = << >>
                          /\ cga.execution_result = << >>
                   /\ n = 0 \/ last.verdict = REJECTED =>
                          /\ cga.escalated
                          /\ cga.total_attempts = cga.max_attempts

\* a run ended by an ESCALATE verdict at its third attempt
C28_Witness ==
    /\ cga.pc = "done"
    /\ Len(cga.decisions) = 3
    /\ cga.decisions[3].verdict = ESCALATE
    /\ cga.max_attempts = 4
    /\ Len(cga.accumulated_constraints) = 2

\* C20: in a run with the default rule ladder, the proposal that follows a
\* rejection for gdpr_consent_required matches neither rung 1 (direct
\* outreach) nor rung 2 (prefetch, then outreach): it contains no send_email
\* action.
C20_NoOutreachAfterGdprRejection ==
    cga.generator = "rule" =>
        \A n \in 1..(Len(cga.proposals) - 1) :
            (/\ cga.decisions[n].verdict = REJECTED
             /\ "gdpr_consent_required" \in Range(cga.decisions[n].violated_constraints))
                => \A a \in 1..Len(cga.proposals[n + 1].actions) :
                       cga.proposals[n + 1].actions[a].action_type # "send_email"

-----------------------------------------------------------------------------
(* lineage/store.py: LineageStore                                          *)
(*                                                                         *)
(* A JSON object is the sequence of its <<key, value>> pairs in the order  *)
(* they were written.  SHA-256 is taken to be collision free: a digest is  *)
(* the one-element sequence holding the bytes that were hashed.  The empty *)
(* string and None are << >>.  A row keeps the columns the store reads     *)
(* back: id, cycle_id, intent_id, escalated_to_human, signature,           *)
(* prior_record_hash and record_json.                                      *)

\* The keys of a LineageRecord as json.dumps(sort_keys=True) orders them.
SortedLineageFields ==
    << "artifact_provenance", "conflicting_intents", "cycle_id",
       "deprioritization_rationale", "deprioritized_intent",
       "drift_detected", "drift_severity", "escalated_to_human",
       "execution_result", "execution_success", "final_approved_proposal",
       "governance_decisions", "human_authorization_token", "id", "intent",
       "prior_record_hash", "priority_override_applied", "proposals",
       "resolution_duration_seconds", "resolved_at", "signature",
       "total_attempts", "uncertainty", "world_state_snapshot" >>

\* json.dumps(record.model_dump(mode="json"), default=str)
full_json(record) ==
    [ i \in 1..Len(LineageFields) |->
        << LineageFields[i], record[LineageFields[i]] >> ]

\* LineageRecord.model_validate_json: the last pair written for a key wins.
model_validate_json(json) ==
    [ f \in { json[i][1] : i \in 1..Len(json) } |->
        LET last == CHOOSE i \in 1..Len(json) :
                        /\ json[i][1] = f
                        /\ \A j \in (i + 1)..Len(json) : json[j][1] # f
        IN  json[last][2] ]

\* model_dump with the signature blanked, dumped with sort_keys=True
record_bytes(record) ==
    [ i \in 1..Len(SortedLineageFields) |->
        LET f == SortedLineageFields[i] IN
        << f, IF f = "signature" THEN << >> ELSE record[f] >> ]

sha256(bytes) == << bytes >>

\* _get_latest_hash read the first row instead of the last
get_latest_hash_of_first(rows) ==
    IF rows = << >> THEN << >> ELSE rows[1].signature

\* _get_latest_hash: SELECT signature ... ORDER BY rowid DESC LIMIT 1
get_latest_hash(rows) ==
    IF rows = << >> THEN << >> ELSE rows[Len(rows)].signature

\* append, lines 77-84: chain to prior_hash and sign
sign_record(record, prior_hash) ==
    LET chained == [record EXCEPT !.prior_record_hash = prior_hash]
    IN  [chained EXCEPT !.signature = sha256(record_bytes(chained))]

\* the row of the INSERT of append, lines 87-117
row_of(record) ==
    [ id                 |-> record.id,
      cycle_id           |-> record.cycle_id,
      intent_id          |-> record.intent.id,
      escalated_to_human |-> record.escalated_to_human,
      signature          |-> record.signature,
      prior_record_hash  |-> record.prior_record_hash,
      record_json        |-> full_json(record) ]

\* an INSERT that overwrote the newest row
insert_row_over_last(rows, row) ==
    IF rows = << >> THEN << row >> ELSE [rows EXCEPT ![Len(rows)] = row]

\* INSERT INTO lineage ...; commit
insert_row(rows, row) == Append(rows, row)

\* LineageStore.append run without interruption: the rows and the record
\* it returns.
append(rows, record) ==
    LET signed == sign_record(record, get_latest_hash(rows))
    IN  [ rows |-> insert_row(rows, row_of(signed)), record |-> signed ]

deserialize(row) == model_validate_json(row.record_json)

deserialize_all(rows) == [ i \in 1..Len(rows) |-> deserialize(rows[i]) ]

get_by_id(rows, record_id) ==
    LET hit(r) == r.id = record_id
        found  == SelectSeq(rows, hit)
    IN  IF found = << >> THEN << >> ELSE << deserialize(found[1]) >>

get_by_cycle(rows, cycle_id) ==
    LET hit(r) == r.cycle_id = cycle_id
    IN  deserialize_all(SelectSeq(rows, hit))

query_by_intent(rows, intent_id) ==
    LET hit(r) == r.intent_id = intent_id
    IN  deserialize_all(SelectSeq(rows, hit))

\* record_json LIKE %entity_id%: the entity is named by the drift
\* description or is the target of a proposed action.
query_by_entity(rows, entity_id) ==
    LET hit(r) ==
            LET rec == deserialize(r) IN
            \/ rec.drift_detected = entity_id
            \/ \E k \in 1..Len(rec.proposals) :
                   \E a \in 1..Len(rec.proposals[k].actions) :
                       rec.proposals[k].actions[a].target = entity_id
    IN  deserialize_all(SelectSeq(rows, hit))

\* query_escalations() without a since bound
query_escalations(rows) ==
    LET hit(r) == r.escalated_to_human
    IN  deserialize_all(SelectSeq(rows, hit))

query_recent(rows, limit) ==
    LET n == Len(rows)
        first == IF limit >= n THEN 1 ELSE n - limit + 1
    IN  deserialize_all(SubSeq(rows, first, n))

verify_chain_integrity(rows) ==
    \A i \in 1..Len(rows) :
        LET record       == deserialize(rows[i])
            expected_sig == sha256(record_bytes(record))
        IN  /\ record.signature = expected_sig
            /\ (i > 1 => record.prior_record_hash = rows[i - 1].signature)

count(rows) == Len(rows)

-----------------------------------------------------------------------------
(* The store used by one caller at a time                                  *)

MaxRecords == 3

\* models/lineage.py LineageRecord(...) with the defaults of the class
LineageRecord(id, cycle_id, intent, drift_detected, drift_severity, total_attempts, escalated_to_human) ==
    [ id                          |-> id,
      cycle_id                    |-> cycle_id,
      intent                      |-> intent,
      drift_detected              |-> drift_detected,
      drift_severity              |-> drift_severity,
      world_state_snapshot        |-> << >>,
      proposals                   |-> << >>,
      governance_decisions        |-> << >>,
      final_approved_proposal     |-> << >>,
      execution_result            |-> << >>,
      execution_success           |-> FALSE,
      total_attempts              |-> total_attempts,
      escalated_to_human          |-> escalated_to_human,
      human_authorization_token   |-> << >>,
      resolved_at                 |-> << >>,
      resolution_duration_seconds |-> << >>,
      conflicting_intents         |-> << >>,
      priority_override_applied   |-> FALSE,
      deprioritized_intent        |-> << >>,
      deprioritization_rationale  |-> << >>,
      uncertainty                 |-> << >>,
      artifact_provenance         |-> << >>,
      signature                   |-> << >>,
      prior_record_hash           |-> << >> ]

LedgerIntents ==
    { Intent(i, 50, << >>, << >>, TRUE, 10) : i \in {"i1", "i2"} }

LedgerCycles == {1, 2}

LedgerEntityIds == {"e1", "e2"}

\* The records a caller may hand to append under a fresh id: cycle,
\* intent id and escalated_to_human vary.
LedgerRecords(id) ==
    { LineageRecord(id, v[1], Intent(v[2], 50, << >>, << >>, TRUE, 10),
                    "e1", 9, 3, v[3]) :
        v \in { <<1, "i1", FALSE>>, <<1, "i2", TRUE>>, <<2, "i1", TRUE>> } }

InitLedger ==
    /\ world = << >>
    /\ handlerLog = << >>
    /\ cga = << >>
    /\ uuid = 0
    /\ registry = BASELINE_ACTION_TYPES
    /\ gIn = << >>
    /\ gOut = << >>
    /\ xIn = << >>
    /\ xOut = "none"
    /\ xResult = << >>
    /\ ledger = << >>
    /\ writers = << >>
    /\ lOut = << >>
    /\ tampered = << >>
    /\ tick = << >>
    /\ dampening = << >>
    /\ config = << >>
    /\ escalation_queue = << >>
    /\ registered = << >>
    /\ drift_events = << >>
    /\ heuristics = << >>
    /\ cycles = << >>
    /\ executors = DefaultExecutors
    /\ run = NoRun
    /\ policy_proposals = << >>
    /\ callers = << >>

LedgerAppend ==
    /\ Len(ledger) < MaxRecords
    /\ \E record \in LedgerRecords(uuid + 1) :
           LET done == append(ledger, record) IN
           /\ ledger' = done.rows
           /\ lOut' = [ op |-> "append", value |-> done.record ]
    /\ uuid' = uuid + 1
    /\ UNCHANGED <<writers, tampered, govVars, execVars, worldVars, cga,
                   reconVars>>

LedgerGetById ==
    /\ \E record_id \in 1..MaxRecords :
           lOut' = [ op |-> "get_by_id", value |-> get_by_id(ledger, record_id) ]
    /\ UNCHANGED <<ledger, writers, tampered, govVars, execVars, worldVars,
                   cgaVars, reconVars>>

LedgerGetByCycle ==
    /\ \E cycle_id \in LedgerCycles :
           lOut' = [ op |-> "get_by_cycle",
                     value |-> get_by_cycle(ledger, cycle_id) ]
    /\ UNCHANGED <<ledger, writers, tampered, govVars, execVars, worldVars,
                   cgaVars, reconVars>>

LedgerQueryByIntent ==
    /\ \E intent_id \in {"i1", "i2"} :
           lOut' = [ op |-> "query_by_intent",
                     value |-> query_by_intent(ledger, intent_id) ]
    /\ UNCHANGED <<ledger, writers, tampered, govVars, execVars, worldVars,
                   cgaVars, reconVars>>

LedgerQueryByEntity ==
    /\ \E entity_id \in LedgerEntityIds :
           lOut' = [ op |-> "query_by_entity",
                     value |-> query_by_entity(ledger, entity_id) ]
    /\ UNCHANGED <<ledger, writers, tampered, govVars, execVars, worldVars,
                   cgaVars, reconVars>>

LedgerQueryEscalations ==
    /\ lOut' = [ op |-> "query_escalations",
                 value |-> query_escalations(ledger) ]
    /\ UNCHANGED <<ledger, writers, tampered, govVars, execVars, worldVars,
                   cgaVars, reconVars>>

LedgerQueryRecent ==
    /\ \E limit \in 1..MaxRecords :
           lOut' = [ op |-> "query_recent",
                     value |-> query_recent(ledger, limit) ]
    /\ UNCHANGED <<ledger, writers, tampered, govVars, execVars, worldVars,
                   cgaVars, reconVars>>

LedgerVerify ==
    /\ lOut' = [ op |-> "verify_chain_integrity",
                 value |-> verify_chain_integrity(ledger) ]
    /\ UNCHANGED <<ledger, writers, tampered, govVars, execVars, worldVars,
                   cgaVars, reconVars>>

LedgerCount ==
    /\ lOut' = [ op |-> "count", value |-> count(ledger) ]
    /\ UNCHANGED <<ledger, writers, tampered, govVars, execVars, worldVars,
                   cgaVars, reconVars>>

NextLedger ==
    \/ LedgerAppend
    \/ LedgerGetById
    \/ LedgerGetByCycle
    \/ LedgerQueryByIntent
    \/ LedgerQueryByEntity
    \/ LedgerQueryEscalations
    \/ LedgerQueryRecent
    \/ LedgerVerify
    \/ LedgerCount

SpecLedger == InitLedger /\ [][NextLedger]_vars

\* C6: after any sequence of sequential appends every stored record's
\* signature is the hash of its content with the signature blanked, its
\* prior_record_hash is the signature of the record appended just before
\* it (null for the first), and verify_chain_integrity() returns true.
C6_ChainWellFormed ==
    /\ \A i \in 1..Len(ledger) :
           LET record == deserialize(ledger[i]) IN
           /\ record.signature = sha256(record_bytes(record))
           /\ ledger[i].signature = record.signature
           /\ record.prior_record_hash =
                  IF i = 1 THEN << >> ELSE deserialize(ledger[i - 1]).signature
           /\ ledger[i].prior_record_hash = record.prior_record_hash
    /\ verify_chain_integrity(ledger)
    /\ (lOut # << >> /\ lOut.op = "verify_chain_integrity" => lOut.value)

\* Three records appended and the chain verified.
C6_Witness ==
    /\ Len(ledger) = 3
    /\ lOut.op = "verify_chain_integrity"
    /\ lOut.value
    /\ deserialize(ledger[3]).prior_record_hash = ledger[2].signature
    /\ ledger[2].signature # ledger[1].signature

\* C8: no public operation of the store decreases the record count or
\* changes the signature, prior_record_hash or content of a row appended
\* earlier; a successful append increases the count by exactly one and every
\* other operation leaves the rows as they are.
C8_AppendOnly ==
    [][ /\ Len(ledger') >= Len(ledger)
        /\ SubSeq(ledger', 1, Len(ledger)) = ledger
        /\ (lOut'.op = "append" => Len(ledger') = Len(ledger) + 1)
        /\ (lOut'.op # "append" => ledger' = ledger) ]_vars

\* A read ran on a ledger of three rows after the third append.
C8_Witness ==
    /\ Len(ledger) = 3
    /\ lOut.op = "query_recent"
    /\ Len(lOut.value) = 2

-----------------------------------------------------------------------------
(* The store shared by threads: the connection is opened with              *)
(* check_same_thread=False and append holds no lock, so another thread can *)
(* run between the SELECT of _get_latest_hash and the INSERT.              *)

Writers == {"w1", "w2"}

InitLedgerConc ==
    /\ world = << >>
    /\ handlerLog = << >>
    /\ cga = << >>
    /\ uuid = 0
    /\ registry = BASELINE_ACTION_TYPES
    /\ gIn = << >>
    /\ gOut = << >>
    /\ xIn = << >>
    /\ xOut = "none"
    /\ xResult = << >>
    /\ ledger = << >>
    /\ writers = [ w \in Writers |-> [ pc |-> "idle" ] ]
    /\ lOut = << >>
    /\ tampered = << >>
    /\ tick = << >>
    /\ dampening = << >>
    /\ config = << >>
    /\ escalation_queue = << >>
    /\ registered = << >>
    /\ drift_events = << >>
    /\ heuristics = << >>
    /\ cycles = << >>
    /\ executors = DefaultExecutors
    /\ run = NoRun
    /\ policy_proposals = << >>
    /\ callers = << >>

\* append, lines 76-77: the thread reads the latest hash into its record
AppendRead(w) ==
    /\ writers[w].pc = "idle"
    /\ uuid < MaxRecords
    /\ \E record \in LedgerRecords(uuid + 1) :
           writers' = [writers EXCEPT ![w] =
               [ pc         |-> "hashed",
                 record     |-> record,
                 prior_hash |-> get_latest_hash(ledger) ]]
    /\ uuid' = uuid + 1
    /\ UNCHANGED <<ledger, lOut, tampered, govVars, execVars, worldVars, cga,
                   reconVars>>

\* append, lines 80-119: sign, INSERT, commit, return
AppendInsert(w) ==
    /\ writers[w].pc = "hashed"
    /\ LET signed == sign_record(writers[w].record, writers[w].prior_hash) IN
       /\ ledger' = insert_row(ledger, row_of(signed))
       /\ lOut' = [ op |-> "append", value |-> signed ]
    /\ writers' = [writers EXCEPT ![w] = [ pc |-> "idle" ]]
    /\ UNCHANGED <<tampered, govVars, execVars, worldVars, cgaVars, reconVars>>

NextLedgerConc == \E w \in Writers : AppendRead(w) \/ AppendInsert(w)

SpecLedgerConc == InitLedgerConc /\ [][NextLedgerConc]_vars

\* C9: when append calls of several threads interleave, each stored
\* record's prior_record_hash is the signature of the record stored just
\* before it, no two records carry the same prior_record_hash, and
\* verify_chain_integrity() stays true.
C9_AppendsSerialized ==
    /\ \A i \in 2..Len(ledger) :
           ledger[i].prior_record_hash = ledger[i - 1].signature
    /\ \A i, j \in 1..Len(ledger) :
           i # j => ledger[i].prior_record_hash # ledger[j].prior_record_hash
    /\ verify_chain_integrity(ledger)

-----------------------------------------------------------------------------
(* The database file edited behind the store's back: one record_json is    *)
(* rewritten in place, the other columns are left alone.                   *)

TamperFields ==
    {"drift_severity", "escalated_to_human", "prior_record_hash", "signature"}

\* The value an edit puts in place of the field's stored one.
tampered_value(record, field) ==
    CASE field = "drift_severity"     -> record.drift_severity - 1
      [] field = "escalated_to_human" -> ~record.escalated_to_human
      [] field = "prior_record_hash"  ->
             IF record.prior_record_hash = << >>
             THEN record.signature ELSE << >>
      [] field = "signature"          -> << >>

\* The JSON text with one value replaced.
tamper_json(json, field, value) ==
    [ i \in 1..Len(json) |->
        IF json[i][1] = field THEN << field, value >> ELSE json[i] ]

\* The edited JSON, its signature field recomputed over the edited content
\* when the editor rewrites it as well.
tamper(json, field, rewrite_signature) ==
    LET edited == tamper_json(json, field,
                      tampered_value(model_validate_json(json), field))
    IN  IF rewrite_signature
        THEN tamper_json(edited, "signature",
                 sha256(record_bytes(model_validate_json(edited))))
        ELSE edited

InitTamper ==
    /\ world = << >>
    /\ handlerLog = << >>
    /\ cga = << >>
    /\ uuid = 0
    /\ registry = BASELINE_ACTION_TYPES
    /\ gIn = << >>
    /\ gOut = << >>
    /\ xIn = << >>
    /\ xOut = "none"
    /\ xResult = << >>
    /\ ledger = << >>
    /\ writers = << >>
    /\ lOut = << >>
    /\ tampered = << >>
    /\ tick = << >>
    /\ dampening = << >>
    /\ config = << >>
    /\ escalation_queue = << >>
    /\ registered = << >>
    /\ drift_events = << >>
    /\ heuristics = << >>
    /\ cycles = << >>
    /\ executors = DefaultExecutors
    /\ run = NoRun
    /\ policy_proposals = << >>
    /\ callers = << >>

Tamper ==
    /\ tampered = << >>
    /\ \E pos \in 1..Len(ledger), field \in TamperFields,
          rewrite_signature \in BOOLEAN :
           LET json == tamper(ledger[pos].record_json, field, rewrite_signature)
           IN  /\ json # ledger[pos].record_json
               /\ ledger' = [ledger EXCEPT ![pos].record_json = json]
               /\ tampered' = << [ pos      |-> pos,
                                   original |-> ledger[pos].record_json ] >>
    /\ UNCHANGED <<writers, lOut, govVars, execVars, worldVars, cgaVars,
                   reconVars>>

NextTamper == LedgerAppend \/ Tamper \/ LedgerVerify

SpecTamper == InitTamper /\ [][NextTamper]_vars

\* C7: for every position of a stored record and every edit of its
\* record_json that changes the deserialized record, whether or not the
\* signature inside the JSON is rewritten too, verify_chain_integrity()
\* returns false afterwards.
C7_TamperDetected ==
    \A t \in 1..Len(tampered) :
        LET pos == tampered[t].pos IN
        deserialize(ledger[pos]) # model_validate_json(tampered[t].original)
            => /\ ~verify_chain_integrity(ledger)
               /\ (lOut # << >> /\ lOut.op = "verify_chain_integrity"
                       => ~lOut.value)

-----------------------------------------------------------------------------
(* SpecTruncate: the oldest rows of the database file are deleted behind   *)
(* the store's back (DELETE FROM lineage WHERE rowid <= n), the rest is    *)
(* left as it was written.                                                 *)

\* The rows that are left when the n oldest are deleted.
delete_oldest(rows, n) == SubSeq(rows, n + 1, Len(rows))

\* One deletion; tampered keeps the JSON of the newest row that was deleted.
DeleteOldest ==
    /\ tampered = << >>
    /\ \E n \in 1..(Len(ledger) - 1) :
           /\ ledger' = delete_oldest(ledger, n)
           /\ tampered' = << [ pos |-> n, original |-> ledger[n].record_json ] >>
    /\ UNCHANGED <<writers, lOut, govVars, execVars, worldVars, cgaVars,
                   reconVars>>

NextTruncate == LedgerAppend \/ DeleteOldest \/ LedgerVerify

SpecTruncate == InitTamper /\ [][NextTruncate]_vars

\* C39: verify_chain_integrity() returns true for the stored rows only if
\* the first stored record has a null prior_record_hash; a ledger whose
\* oldest records were deleted, so that its first row points at a record
\* that is not stored, is reported as broken.
C39_GenesisIsChecked ==
    (ledger # << >> /\ verify_chain_integrity(ledger)) =>
        /\ ledger[1].prior_record_hash = << >>
        /\ deserialize(ledger[1]).prior_record_hash = << >>
        /\ tampered = << >>

-----------------------------------------------------------------------------
(* reconciler/loop.py, learning/engine.py, world_model/store.py            *)
(* Times are whole seconds.                                                *)

\* The order of the keys of model.entities (insertion order).
EntityOrder == << "e1", "e2" >>

entity_items(entities) ==
    LET present(e) == e \in DOMAIN entities
    IN  SelectSeq(EntityOrder, present)

\* DriftWatcher._check_sla_drift over the obligations not yet looked at:
\* the Optional[DriftEvent].  minutes_waiting >= sla_minutes * 0.7 is
\* compared in tenths of a second; severity is min(10, int(8 + ratio * 2)).
RECURSIVE sla_drift_from(_, _, _, _, _)
sla_drift_from(obligations, entity_id, entity, intents, current_time) ==
    IF obligations = << >> THEN << >>
    ELSE LET intent_id == Head(obligations)
             serves(i) == i.id = intent_id /\ i.active
             matching  == SelectSeq(intents, serves)
             rest      == sla_drift_from(Tail(obligations), entity_id, entity,
                                         intents, current_time)
         IN  IF matching = << >> THEN rest
             ELSE IF matching[1].sla_minutes = -1 THEN rest
             ELSE IF entity.last_contacted THEN rest
             ELSE IF entity.created_at = << >> THEN rest
             ELSE LET seconds_waiting == current_time - Head(entity.created_at)
                      sla_seconds == matching[1].sla_minutes * 60
                      ratio2 == (2 * seconds_waiting) \div sla_seconds
                  IN  IF seconds_waiting * 10 >= sla_seconds * 7
                      THEN << DriftEvent(entity_id, intent_id,
                                 IF 8 + ratio2 > 10 THEN 10 ELSE 8 + ratio2) >>
                      ELSE rest

\* Mutant: the rule does not look at last_contacted.
check_sla_drift_ignoring_contact(entity_id, entity, intents, current_time) ==
    sla_drift_from(entity.obligations, entity_id,
                   [entity EXCEPT !.last_contacted = FALSE], intents,
                   current_time)

check_sla_drift(entity_id, entity, intents, current_time) ==
    sla_drift_from(entity.obligations, entity_id, entity, intents, current_time)

\* DriftWatcher.check: the events of the registered rules (one rule)
check(entity_id, entity, intents, current_time) ==
    check_sla_drift(entity_id, entity, intents, current_time)

\* models/reconciler.py ReconcilerConfig
ReconcilerConfig(cooldown_seconds, max_retry_budget, circuit_breaker_threshold) ==
    [ cooldown_seconds          |-> cooldown_seconds,
      max_retry_budget          |-> max_retry_budget,
      circuit_breaker_threshold |-> circuit_breaker_threshold ]

\* models/reconciler.py DampeningState with the defaults of the class
DampeningState(last_intervention_at) ==
    [ last_intervention_at |-> last_intervention_at,
      consecutive_failures |-> 0,
      cooldown_until       |-> << >>,
      circuit_broken       |-> FALSE ]

\* Mutant: the circuit breaker is not looked at.
is_dampened_by_cooldown_only(states, entity_id, current_time) ==
    /\ entity_id \in DOMAIN states
    /\ states[entity_id].cooldown_until # << >>
    /\ current_time < Head(states[entity_id].cooldown_until)

\* Mutant: the cooldown is not looked at.
is_dampened_by_breaker_only(states, entity_id, current_time) ==
    /\ entity_id \in DOMAIN states
    /\ states[entity_id].circuit_broken

\* ReconcilerLoop._is_dampened
is_dampened(states, entity_id, current_time) ==
    /\ entity_id \in DOMAIN states
    /\ \/ states[entity_id].circuit_broken
       \/ /\ states[entity_id].cooldown_until # << >>
          /\ current_time < Head(states[entity_id].cooldown_until)

\* Mutant: a success leaves the count of consecutive failures as it is.
update_dampening_without_reset(states, entity_id, failed, current_time, cfg) ==
    LET state == IF entity_id \in DOMAIN states THEN states[entity_id]
                 ELSE DampeningState(current_time)
        failures == IF failed THEN state.consecutive_failures + 1
                    ELSE state.consecutive_failures
        updated ==
            [ last_intervention_at |-> current_time,
              cooldown_until       |-> << current_time + cfg.cooldown_seconds >>,
              consecutive_failures |-> failures,
              circuit_broken       |->
                  \/ state.circuit_broken
                  \/ failed /\ failures >= cfg.circuit_breaker_threshold ]
    IN  [ e \in DOMAIN states \cup {entity_id} |->
            IF e = entity_id THEN updated ELSE states[e] ]

\* ReconcilerLoop._update_dampening
update_dampening(states, entity_id, failed, current_time, cfg) ==
    LET state == IF entity_id \in DOMAIN states THEN states[entity_id]
                 ELSE DampeningState(current_time)
        failures == IF failed THEN state.consecutive_failures + 1 ELSE 0
        updated ==
            [ last_intervention_at |-> current_time,
              cooldown_until       |-> << current_time + cfg.cooldown_seconds >>,
              consecutive_failures |-> failures,
              circuit_broken       |->
                  \/ state.circuit_broken
                  \/ failed /\ failures >= cfg.circuit_breaker_threshold ]
    IN  [ e \in DOMAIN states \cup {entity_id} |->
            IF e = entity_id THEN updated ELSE states[e] ]

\* The violated constraint names of the REJECTED decisions, in loop order.
RECURSIVE rejected_constraint_names(_)
rejected_constraint_names(decisions) ==
    IF decisions = << >> THEN << >>
    ELSE (IF Head(decisions).verdict = REJECTED
          THEN Head(decisions).violated_constraints ELSE << >>)
         \o rejected_constraint_names(Tail(decisions))

\* LearningEngine._extract_pattern over the entities not yet looked at.
\* A pattern string is the record of its parts.
RECURSIVE pattern_from(_, _, _)
pattern_from(ids, entities, constraint_name) ==
    IF ids = << >>
    THEN [ kind |-> "constraint", geo |-> "", local_hour |-> -1,
           constraint |-> constraint_name ]
    ELSE LET props == entities[Head(ids)] IN
         IF constraint_name = "gdpr_consent_required" /\ props.geo # ""
         THEN [ kind |-> "geo", geo |-> props.geo, local_hour |-> -1,
                constraint |-> "" ]
         ELSE IF /\ constraint_name = "no_contact_outside_hours"
                 /\ props.local_hour # -1
         THEN [ kind |-> "local_hour", geo |-> "",
                local_hour |-> props.local_hour, constraint |-> "" ]
         ELSE pattern_from(Tail(ids), entities, constraint_name)

extract_pattern(record, constraint_name) ==
    pattern_from(entity_items(record.world_state_snapshot.entities),
                 record.world_state_snapshot.entities, constraint_name)

\* The loops of learn_from_lineage over the names still to visit: a known
\* pattern is counted and the loop goes on, a new one is stored and the
\* call returns.  success_rate is in thousandths, rounded down.
RECURSIVE learn_over(_, _, _, _)
learn_over(names, known, record, heuristic_id) ==
    IF names = << >> THEN known
    ELSE LET pattern == extract_pattern(record, Head(names))
             hits == { k \in 1..Len(known) : known[k].pattern = pattern }
         IN  IF hits # {}
             THEN LET k == CHOOSE x \in hits : \A y \in hits : x <= y
                      counted == [known EXCEPT
                          ![k].hit_count = @ + 1,
                          ![k].success_rate =
                              IF record.execution_success
                              THEN (8 * @ + 2000) \div 10 ELSE @]
                  IN  learn_over(Tail(names), counted, record, heuristic_id)
             ELSE Append(known,
                      [ id                 |-> heuristic_id,
                        pattern            |-> pattern,
                        source_lineage_ids |-> << record.id >>,
                        hit_count          |-> 1,
                        success_rate       |->
                            IF record.execution_success THEN 1000 ELSE 0,
                        status             |-> "active" ])

\* LearningEngine.learn_from_lineage: the heuristics after the call
learn_from_lineage(known, record, heuristic_id) ==
    IF record.total_attempts <= 1 THEN known
    ELSE learn_over(rejected_constraint_names(record.governance_decisions),
                    known, record, heuristic_id)

\* The rejection reasons _handle_drift copies into an escalation.
rejection_reasons(decisions) ==
    LET has_reason(d) == d.rejection_reason # << >>
        with_reason   == SelectSeq(decisions, has_reason)
    IN  [ k \in 1..Len(with_reason) |-> with_reason[k].rejection_reason ]

-----------------------------------------------------------------------------
(* ReconcilerLoop.reconcile_once, one call at a time                       *)

MaxTime == 2

MaxTicks == 2

\* cooldown_seconds values the operator may configure
Cooldowns == {0, 2}

\* Leads created long before the first tick, so that they drift.
ReconWorlds ==
    { [ e \in {"e1", "e2"} |->
          IF e = "e1"
          THEN Entity(g[1], g[2], g[3], FALSE, << -6000 >>, <<"i1">>)
          ELSE Entity("EU", FALSE, 23, FALSE, << -6000 >>, <<"i1">>) ] :
        g \in { <<"EU", FALSE, 14>>, <<"EU", TRUE, 14>> } }

ReconIntents ==
    { Intent("i1", 50, <<H_gdpr, H_hours>>, << >>, TRUE, 10) }

ReconConfigs ==
    { ReconcilerConfig(c, b, t) :
        c \in Cooldowns, b \in {1, 3}, t \in {1, 2} }

InitRecon ==
    /\ world \in ReconWorlds
    /\ handlerLog = << >>
    /\ cga = NoCGA
    /\ uuid = 0
    /\ registry = BASELINE_ACTION_TYPES
    /\ gIn = << >>
    /\ gOut = << >>
    /\ xIn = << >>
    /\ xOut = "none"
    /\ xResult = << >>
    /\ ledger = << >>
    /\ writers = << >>
    /\ lOut = << >>
    /\ tampered = << >>
    /\ tick = [ pc |-> "idle", now |-> 0, todo |-> << >>, n |-> 0 ]
    /\ dampening = << >>
    /\ config \in ReconConfigs
    /\ escalation_queue = << >>
    /\ \E i \in ReconIntents : registered = << i >>
    /\ drift_events = << >>
    /\ heuristics = << >>
    /\ cycles = << >>
    /\ executors = DefaultExecutors
    /\ run = NoRun
    /\ policy_proposals = << >>
    /\ callers = << >>

\* reconcile_once is entered: the clock does not run backwards.
ReconcileOnce ==
    /\ tick.pc = "idle"
    /\ tick.n < MaxTicks
    /\ \E current_time \in tick.now..MaxTime :
           tick' = [ pc |-> "scan", now |-> current_time,
                     todo |-> entity_items(world), n |-> tick.n + 1 ]
    /\ UNCHANGED <<dampening, config, escalation_queue, registered, callers, run, policy_proposals,
                   drift_events, heuristics, cycles, govVars, execVars,
                   worldVars, cgaVars, ledgerVars>>

\* the scan skips an entity in cooldown or circuit-broken
ScanDampened ==
    /\ tick.pc = "scan"
    /\ tick.todo # << >>
    /\ is_dampened(dampening, Head(tick.todo), tick.now)
    /\ tick' = [tick EXCEPT !.todo = Tail(@)]
    /\ UNCHANGED <<dampening, config, escalation_queue, registered, callers, run, policy_proposals,
                   drift_events, heuristics, cycles, govVars, execVars,
                   worldVars, cgaVars, ledgerVars>>

\* the watcher reports no drift for the entity
ScanNoDrift ==
    /\ tick.pc = "scan"
    /\ tick.todo # << >>
    /\ ~is_dampened(dampening, Head(tick.todo), tick.now)
    /\ check(Head(tick.todo), world[Head(tick.todo)], registered, tick.now) = << >>
    /\ tick' = [tick EXCEPT !.todo = Tail(@)]
    /\ UNCHANGED <<dampening, config, escalation_queue, registered, callers, run, policy_proposals,
                   drift_events, heuristics, cycles, govVars, execVars,
                   worldVars, cgaVars, ledgerVars>>

\* _handle_drift up to the call of cga.run
ScanDrift ==
    /\ tick.pc = "scan"
    /\ tick.todo # << >>
    /\ ~is_dampened(dampening, Head(tick.todo), tick.now)
    /\ LET entity_id == Head(tick.todo)
           events == check(entity_id, world[entity_id], registered, tick.now)
           serves(i) == i.id = Head(events).intent_id
       IN  /\ events # << >>
           /\ SelectSeq(registered, serves) # << >>
           /\ cga' = cga_begin("rule", SelectSeq(registered, serves)[1],
                               Head(events), registered,
                               config.max_retry_budget)
           /\ cycles' = Append(cycles,
                  [ entity_id        |-> entity_id,
                    time             |-> tick.now,
                    cooldown_seconds |-> config.cooldown_seconds,
                    tick             |-> tick.n ])
    /\ tick' = [tick EXCEPT !.pc = "cga"]
    /\ UNCHANGED <<dampening, config, escalation_queue, registered, callers, run, policy_proposals,
                   drift_events, heuristics, uuid, govVars, execVars,
                   worldVars, ledgerVars>>

\* _handle_drift after cga.run has returned: lineage append, drift event,
\* dampening, learning, escalation.
CompleteDrift ==
    /\ tick.pc = "cga"
    /\ cga.pc = "done"
    /\ LET cycle_id == uuid + 1
           built == build_lineage_record(cga, uuid + 2, cycle_id,
                        get_state_snapshot(world, drift_events), tick.now)
           done  == append(ledger, built)
           drift == Head(cga.drift)
       IN  /\ ledger' = done.rows
           /\ lOut' = [ op |-> "append", value |-> done.record ]
           /\ drift_events' = Append(drift_events, drift)
           /\ dampening' = update_dampening(dampening, drift.entity_id,
                                            cga.escalated, tick.now, config)
           /\ heuristics' = learn_from_lineage(heuristics, done.record, uuid + 3)
           /\ escalation_queue' =
                  IF cga.escalated
                  THEN Append(escalation_queue,
                           [ id                |-> uuid + 4,
                             cycle_id          |-> cycle_id,
                             lineage_id        |-> done.record.id,
                             intent_id         |-> Head(cga.intent).id,
                             entity_id         |-> drift.entity_id,
                             proposals_tried   |-> Len(cga.proposals),
                             rejection_reasons |-> rejection_reasons(cga.decisions),
                             status            |-> "pending",
                             resolution        |-> "",
                             resolved_by       |-> "",
                             created_at        |-> tick.now ])
                  ELSE escalation_queue
    /\ uuid' = uuid + 4
    /\ cga' = NoCGA
    /\ tick' = [tick EXCEPT !.pc = "scan", !.todo = Tail(@)]
    /\ UNCHANGED <<config, registered, callers, run, policy_proposals, cycles, writers, tampered, govVars,
                   execVars, worldVars>>

\* every entity was scanned: mark_reconciled, return
ScanDone ==
    /\ tick.pc = "scan"
    /\ tick.todo = << >>
    /\ tick' = [tick EXCEPT !.pc = "idle"]
    /\ UNCHANGED <<dampening, config, escalation_queue, registered, callers, run, policy_proposals,
                   drift_events, heuristics, cycles, govVars, execVars,
                   worldVars, cgaVars, ledgerVars>>

\* PUT /reconciler/config between two ticks
UpdateConfig ==
    /\ tick.pc = "idle"
    /\ tick.n < MaxTicks
    /\ \E c \in ReconConfigs :
           /\ c.max_retry_budget = config.max_retry_budget
           /\ c.circuit_breaker_threshold = config.circuit_breaker_threshold
           /\ c # config
           /\ config' = c
    /\ UNCHANGED <<tick, dampening, escalation_queue, registered, callers, run, policy_proposals,
                   drift_events, heuristics, cycles, govVars, execVars,
                   worldVars, cgaVars, ledgerVars>>

\* upsert_entity between two ticks: a contacted lead is stored anew, or a
\* lead whose last cycle escalated is stored with the consent it has given
\* meanwhile
UpsertEntity ==
    /\ tick.pc = "idle"
    /\ tick.n < MaxTicks
    /\ \E e \in DOMAIN world :
           \/ /\ world[e].last_contacted
              /\ world' = [world EXCEPT ![e].last_contacted = FALSE,
                                        ![e].contact_method = ""]
           \/ /\ ~world[e].gdpr_consent
              /\ e \in DOMAIN dampening
              /\ dampening[e].consecutive_failures >= 1
              /\ world' = [world EXCEPT ![e].gdpr_consent = TRUE]
    /\ UNCHANGED <<handlerLog, reconVars, govVars, execVars, cgaVars,
                   ledgerVars>>

\* pending_escalations: the entries whose status is pending
pending_escalations(queue) ==
    LET is_pending(q) == q.status = "pending" IN SelectSeq(queue, is_pending)

\* Mutant: the status of the entry is not looked at.
resolve_escalation_of_any_status(queue, escalation_id, resolution, resolver) ==
    LET hits == { k \in 1..Len(queue) : queue[k].id = escalation_id }
    IN  IF hits = {} THEN [ queue |-> queue, result |-> << >> ]
        ELSE LET k == CHOOSE x \in hits : \A y \in hits : x <= y
                 after == [queue EXCEPT ![k].status = "resolved",
                                        ![k].resolution = resolution,
                                        ![k].resolved_by = resolver]
             IN  [ queue |-> after, result |-> << after[k] >> ]

\* resolve_escalation(escalation_id, resolution, resolver): the first
\* pending entry with that id is marked resolved and returned; the queue
\* afterwards and the value returned (None is the empty sequence).
resolve_escalation(queue, escalation_id, resolution, resolver) ==
    LET hits == { k \in 1..Len(queue) :
                    /\ queue[k].id = escalation_id
                    /\ queue[k].status = "pending" }
    IN  IF hits = {} THEN [ queue |-> queue, result |-> << >> ]
        ELSE LET k == CHOOSE x \in hits : \A y \in hits : x <= y
                 after == [queue EXCEPT ![k].status = "resolved",
                                        ![k].resolution = resolution,
                                        ![k].resolved_by = resolver]
             IN  [ queue |-> after, result |-> << after[k] >> ]

\* The humans that resolve escalations.
Resolvers == {"admin"}

\* The ids a caller may name: 0 is the id of no entry.
EscalationIds == {0} \cup { escalation_queue[k].id : k \in 1..Len(escalation_queue) }

\* POST /escalations/{id}/resolve between two ticks, for the id of a pending
\* entry, of a resolved entry, or of no entry
ResolveEscalation ==
    /\ tick.pc = "idle"
    /\ \E escalation_id \in EscalationIds : \E resolver \in Resolvers :
           escalation_queue' =
               resolve_escalation(escalation_queue, escalation_id,
                                  "approved", resolver).queue
    /\ UNCHANGED <<tick, dampening, config, registered, callers, run, policy_proposals, drift_events,
                   heuristics, cycles, govVars, execVars, worldVars, cgaVars,
                   ledgerVars>>

NextRecon ==
    \/ ReconcileOnce
    \/ ResolveEscalation
    \/ ScanDampened
    \/ ScanNoDrift
    \/ ScanDrift
    \/ CGARound
    \/ CGAExhausted
    \/ CompleteDrift
    \/ ScanDone
    \/ UpdateConfig
    \/ UpsertEntity

SpecRecon == InitRecon /\ [][NextRecon]_vars

\* C5: within a reconciliation cycle no execution side effect (an executor
\* handler call, a world-model update) is committed before the cycle's
\* lineage record has been appended to the ledger.
C5_LineageBeforeSideEffects ==
    \A d \in 1..Len(cga.dispatched) :
        (/\ cga.execution_result # << >>
         /\ Head(cga.execution_result).actions_completed # << >>)
        => \E k \in 1..Len(ledger) :
               deserialize(ledger[k]).final_approved_proposal =
                   << cga.dispatched[d].proposal.id >>

\* C10: two CGA cycles run for one entity by sequential ticks at times
\* t1 < t2 are at least the cooldown_seconds in force at the first apart,
\* and one tick hands an entity to at most one CGA cycle.
C10_Dampening ==
    \A i, j \in 1..Len(cycles) :
        (i < j /\ cycles[i].entity_id = cycles[j].entity_id) =>
            /\ cycles[i].tick # cycles[j].tick
            /\ (cycles[i].time < cycles[j].time =>
                   cycles[j].time - cycles[i].time >= cycles[i].cooldown_seconds)

\* An entity's second cycle, started the moment a cooldown of two seconds
\* ran out.
C10_Witness ==
    \E i, j \in 1..Len(cycles) :
        /\ i < j
        /\ cycles[i].entity_id = cycles[j].entity_id
        /\ cycles[i].cooldown_seconds = 2
        /\ cycles[j].time = cycles[i].time + 2
        /\ tick.pc = "idle"

\* The cycles started for an entity, the drift events its complete cycles
\* left in the world store, and the escalations queued for it.
cycles_of(e) ==
    LET on(c) == c.entity_id = e IN Len(SelectSeq(cycles, on))

events_of(e) ==
    LET on(d) == d.entity_id = e IN Len(SelectSeq(drift_events, on))

escalations_of(e) ==
    LET on(q) == q.entity_id = e IN Len(SelectSeq(escalation_queue, on))

circuit_broken(e) ==
    e \in DOMAIN dampening /\ dampening[e].circuit_broken

\* An entity all of whose cycles escalated has had at most limit complete
\* cycles, and its circuit is broken exactly when it has had limit of them.
breaks_after(limit) ==
    \A e \in DOMAIN world :
        escalations_of(e) = events_of(e)
            => /\ events_of(e) <= limit
               /\ cycles_of(e) <= events_of(e) + 1
               /\ circuit_broken(e) <=>
                      (events_of(e) >= 1 /\ events_of(e) = limit)

\* No step produces anything for an entity whose circuit is broken.
skips_broken ==
    \A e \in DOMAIN world :
        circuit_broken(e) =>
            /\ dampening'[e] = dampening[e]
            /\ Len(SelectSeq(cycles', LAMBDA c : c.entity_id = e))
                   = cycles_of(e)
            /\ Len(SelectSeq(drift_events', LAMBDA d : d.entity_id = e))
                   = events_of(e)
            /\ Len(SelectSeq(escalation_queue', LAMBDA q : q.entity_id = e))
                   = escalations_of(e)
            /\ Len(ledger') > Len(ledger) =>
                   deserialize(ledger'[Len(ledger')]).drift_detected # e

cycle_dampened_state ==
    tick.pc = "cga" /\ tick'.pc = "scan" =>
        LET e == Head(tick.todo)
            before == IF e \in DOMAIN dampening
                      THEN dampening[e].consecutive_failures ELSE 0
        IN  /\ dampening'[e].last_intervention_at = tick.now
            /\ dampening'[e].cooldown_until = << tick.now + config.cooldown_seconds >>
            /\ dampening'[e].consecutive_failures =
                   IF cga.escalated THEN before + 1 ELSE 0
            /\ \A o \in DOMAIN dampening : o # e => dampening'[o] = dampening[o]

\* C32: the step that completes a CGA cycle for an entity at tick time now
\* leaves the entity with last_intervention_at = now, cooldown_until = now
\* + cooldown_seconds and consecutive_failures one higher if the cycle
\* escalated, 0 if not; with the threshold fixed (and >= 1) the circuit is
\* broken exactly when consecutive_failures has reached the threshold, and
\* consecutive_failures never exceeds it.
C32_DampeningState ==
    /\ [](\A e \in DOMAIN dampening :
             /\ dampening[e].consecutive_failures <= config.circuit_breaker_threshold
             /\ dampening[e].circuit_broken <=>
                    dampening[e].consecutive_failures = config.circuit_breaker_threshold)
    /\ [][cycle_dampened_state]_vars

\* an entity whose first cycle escalated and whose second cycle succeeded:
\* the count is back at 0
C32_Witness ==
    \E e \in DOMAIN dampening :
        /\ events_of(e) = 2
        /\ escalations_of(e) = 1
        /\ dampening[e].consecutive_failures = 0
        /\ ~dampening[e].circuit_broken

\* C13: resolving the pending escalation of a circuit-broken entity clears
\* the entity's circuit_broken flag, so that the entity is eligible for
\* reconciliation again: an entity whose latest escalation is resolved is
\* not circuit-broken.
C13_ResolutionClearsBreaker ==
    \A k \in 1..Len(escalation_queue) :
        (/\ escalation_queue[k].status = "resolved"
         /\ \A j \in (k + 1)..Len(escalation_queue) :
                escalation_queue[j].entity_id # escalation_queue[k].entity_id)
            => ~circuit_broken(escalation_queue[k].entity_id)

\* C22: with the default rule ladder and a budget of 3, the cycle for an EU
\* entity without GDPR consent at local hour 14, for an intent whose only
\* violated hard constraint is gdpr_consent_required, makes exactly 3
\* attempts decided REJECTED, REJECTED, APPROVED; the approved proposal
\* holds route_to_human, the execution succeeds, the cycle is not escalated,
\* and one lineage record with total_attempts = 3 is appended with the
\* chain valid.
C22_GdprScenario ==
    (/\ lOut # << >>
     /\ config.max_retry_budget = 3
     /\ lOut.value.drift_detected = "e1"
     /\ lOut.value.world_state_snapshot.entities["e1"].geo = "EU"
     /\ ~lOut.value.world_state_snapshot.entities["e1"].gdpr_consent
     /\ lOut.value.world_state_snapshot.entities["e1"].local_hour = 14) =>
        /\ lOut.value.total_attempts = 3
        /\ [k \in 1..Len(lOut.value.governance_decisions) |->
               lOut.value.governance_decisions[k].verdict]
               = <<REJECTED, REJECTED, APPROVED>>
        /\ Len(lOut.value.proposals) = 3
        /\ lOut.value.final_approved_proposal = << lOut.value.proposals[3].id >>
        /\ \E a \in 1..Len(lOut.value.proposals[3].actions) :
               lOut.value.proposals[3].actions[a].action_type = "route_to_human"
        /\ lOut.value.execution_success
        /\ ~lOut.value.escalated_to_human
        /\ Len(SelectSeq(ledger, LAMBDA row : row.cycle_id = lOut.value.cycle_id)) = 1
        /\ verify_chain_integrity(ledger)

\* The cycle's record is in the ledger, after the records of earlier cycles.
C22_Witness ==
    /\ lOut # << >>
    /\ config.max_retry_budget = 3
    /\ lOut.value.drift_detected = "e1"
    /\ ~lOut.value.world_state_snapshot.entities["e1"].gdpr_consent
    /\ lOut.value.total_attempts = 3
    /\ lOut.value.execution_success
    /\ Len(ledger) >= 2
    /\ ledger[Len(ledger)].id = lOut.value.id

\* The ledger rows of escalated cycles.
escalated_rows ==
    LET flagged(row) == row.escalated_to_human IN SelectSeq(ledger, flagged)

\* The cycle of the record appended last escalated: its last decision is
\* ESCALATE, or every attempt the budget allowed was rejected.
last_cycle_escalated ==
    LET ds == lOut.value.governance_decisions IN
    \/ ds # << >> /\ ds[Len(ds)].verdict = ESCALATE
    \/ \A k \in 1..Len(ds) : ds[k].verdict = REJECTED

\* An escalation enters the queue as pending, together with a lineage
\* record.
enqueued_pending ==
    Len(escalation_queue') > Len(escalation_queue) =>
        /\ Len(escalation_queue') = Len(escalation_queue) + 1
        /\ escalation_queue'[Len(escalation_queue')].status = "pending"
        /\ Len(ledger') = Len(ledger) + 1

\* C23: for every drift event a sequential tick processes exactly one
\* lineage record is appended and the drift event is recorded on the world
\* model; a pending escalation carrying the cycle's cycle_id and lineage_id
\* is enqueued if and only if the cycle escalated (ESCALATE verdict or
\* budget exhaustion).
C23_OneRecordPerDrift ==
    /\ [](/\ Len(ledger) = Len(cycles) - (IF tick.pc = "cga" THEN 1 ELSE 0)
          /\ Len(drift_events) = Len(ledger)
          /\ \A k \in 1..Len(drift_events) :
                 drift_events[k].entity_id = cycles[k].entity_id
          /\ Len(escalation_queue) = Len(escalated_rows)
          /\ \A k \in 1..Len(escalation_queue) :
                 /\ escalation_queue[k].cycle_id = escalated_rows[k].cycle_id
                 /\ escalation_queue[k].lineage_id = escalated_rows[k].id
          /\ lOut # << >> =>
                 /\ ledger[Len(ledger)].id = lOut.value.id
                 /\ lOut.value.escalated_to_human <=> last_cycle_escalated)
    /\ [][enqueued_pending]_vars

\* A tick that processed two drift events, one cycle approved and one
\* escalated, has returned.
C23_Witness ==
    /\ tick.pc = "idle"
    /\ tick.n = 1
    /\ Len(ledger) = 2
    /\ Len(escalation_queue) = 1
    /\ escalation_queue[1].status = "pending"



\* C27: the lineage record built from a CGA result by build_lineage_record
\* (here: the record a tick appends) carries an uncertainty declaration,
\* that of the cycle's governance decision.
C27_LineageCarriesUncertainty ==
    lOut # << >> =>
        /\ lOut.value.uncertainty # << >>
        /\ \E k \in 1..Len(lOut.value.governance_decisions) :
               lOut.value.governance_decisions[k].uncertainty = lOut.value.uncertainty

-----------------------------------------------------------------------------
(* SpecReconFail: a tick in which a call of _handle_drift raises           *)
(* reconcile_once and _handle_drift hold no try/except: an exception of    *)
(* lineage_store.append (the connection was closed, the database is        *)
(* locked) or of learning.learn_from_lineage leaves both frames.           *)

\* lineage_store.append raises: nothing is appended, the statements after
\* it are skipped and the exception leaves reconcile_once with the entities
\* after this one unscanned and mark_reconciled not called.
AppendRaises ==
    /\ tick.pc = "cga"
    /\ cga.pc = "done"
    /\ uuid' = uuid + 2
    /\ cga' = NoCGA
    /\ tick' = [tick EXCEPT !.pc = "aborted"]
    /\ UNCHANGED <<dampening, config, escalation_queue, registered, callers, run, policy_proposals,
                   drift_events, heuristics, cycles, govVars, execVars,
                   worldVars, ledgerVars>>

\* learning.learn_from_lineage raises: the record is appended, the drift
\* event recorded and the dampening updated, the escalation is not enqueued
\* and the exception leaves reconcile_once.
LearningRaises ==
    /\ tick.pc = "cga"
    /\ cga.pc = "done"
    /\ LET cycle_id == uuid + 1
           built == build_lineage_record(cga, uuid + 2, cycle_id,
                        get_state_snapshot(world, drift_events), tick.now)
           done  == append(ledger, built)
           drift == Head(cga.drift)
       IN  /\ ledger' = done.rows
           /\ lOut' = [ op |-> "append", value |-> done.record ]
           /\ drift_events' = Append(drift_events, drift)
           /\ dampening' = update_dampening(dampening, drift.entity_id,
                                            cga.escalated, tick.now, config)
    /\ uuid' = uuid + 2
    /\ cga' = NoCGA
    /\ tick' = [tick EXCEPT !.pc = "aborted"]
    /\ UNCHANGED <<config, escalation_queue, registered, callers, run, policy_proposals, heuristics,
                   cycles, writers, tampered, govVars, execVars, worldVars>>

NextReconFail ==
    \/ ReconcileOnce
    \/ ResolveEscalation
    \/ ScanDampened
    \/ ScanNoDrift
    \/ ScanDrift
    \/ CGARound
    \/ CGAExhausted
    \/ CompleteDrift
    \/ ScanDone
    \/ UpdateConfig
    \/ UpsertEntity
    \/ AppendRaises
    \/ LearningRaises

SpecReconFail == InitRecon /\ [][NextReconFail]_vars

\* C24: a failure while one entity's drift is handled does not abort the
\* tick: reconcile_once ends only when every entity was scanned (and
\* mark_reconciled was called), and the escalation of every escalated cycle
\* whose record is in the ledger is in the queue.
C24_FailureDoesNotAbortTick ==
    /\ tick.pc \notin {"scan", "cga"} => tick.todo = << >>
    /\ lOut # << >> /\ lOut.value.escalated_to_human =>
           \E k \in 1..Len(escalation_queue) :
               escalation_queue[k].lineage_id = lOut.value.id



\* The approved proposal of the cycle that ends completed an action of one of
\* the outreach types on the entity of the cycle.
outreach_completed ==
    /\ cga.final_verdict = "approved"
    /\ cga.execution_result # << >>
    /\ \E done \in Range(Head(cga.execution_result).actions_completed) :
           /\ done.action_type \in ContactTypes
           /\ done.target = Head(tick.todo)

\* C34: a cycle whose approved proposal completed an outreach action on the
\* entity leaves the entity with last_contacted set; for an entity with
\* last_contacted set the SLA rule emits no drift event at any time, no CGA
\* cycle is started for it, and a lineage record or an escalation is
\* produced only by the completion of a cycle that was started for an entity
\* without last_contacted.
C34_ContactedStopsDrifting ==
    /\ [](\A e \in DOMAIN world : \A t \in 0..MaxTime :
             world[e].last_contacted =>
                 check(e, world[e], registered, t) = << >>)
    /\ [][tick.pc = "cga" /\ tick'.pc = "scan" /\ outreach_completed =>
              /\ world'[Head(tick.todo)].last_contacted
              /\ world'[Head(tick.todo)].contact_method # ""]_vars
    /\ [][cycles' # cycles =>
              /\ ~world[Head(tick.todo)].last_contacted
              /\ cycles'[Len(cycles')].entity_id = Head(tick.todo)]_vars
    /\ [][ledger' # ledger \/ escalation_queue' # escalation_queue
                            \/ drift_events' # drift_events =>
              \/ tick.pc = "idle" /\ ledger' = ledger
                                  /\ drift_events' = drift_events
              \/ /\ tick.pc = "cga"
                 /\ cycles[Len(cycles)].entity_id = Head(tick.todo)
                 /\ cycles[Len(cycles)].tick = tick.n]_vars

\* The second tick, at a time past the cooldown, has passed over a lead that
\* the first tick contacted: it has one cycle, one drift event, no
\* escalation.
C34_Witness ==
    \E e \in DOMAIN world :
        /\ tick.n = 2
        /\ tick.pc = "idle"
        /\ world[e].last_contacted
        /\ world[e].contact_method # ""
        /\ e \in DOMAIN dampening
        /\ dampening[e].cooldown_until # << >>
        /\ tick.now >= Head(dampening[e].cooldown_until)
        /\ cycles_of(e) = 1
        /\ events_of(e) = 1
        /\ escalations_of(e) = 0

\* The entry is as it was when it was enqueued, but for its resolution.
same_escalation(before, after) ==
    [after EXCEPT !.status = "", !.resolution = "", !.resolved_by = ""] =
        [before EXCEPT !.status = "", !.resolution = "", !.resolved_by = ""]

\* One step of the queue: entries are only added at the end, an entry
\* changes only from pending to resolved, and only in a step of
\* resolve_escalation, which changes nothing else.
escalation_step ==
    /\ Len(escalation_queue') >= Len(escalation_queue)
    /\ \A k \in 1..Len(escalation_queue) :
           \/ escalation_queue'[k] = escalation_queue[k]
           \/ /\ escalation_queue[k].status = "pending"
              /\ escalation_queue'[k].status = "resolved"
              /\ escalation_queue'[k].resolution = "approved"
              /\ escalation_queue'[k].resolved_by \in Resolvers
              /\ same_escalation(escalation_queue[k], escalation_queue'[k])
              /\ Len(escalation_queue') = Len(escalation_queue)
              /\ \A j \in 1..Len(escalation_queue) :
                     j # k => escalation_queue'[j] = escalation_queue[j]
              /\ tick.pc = "idle"
              /\ UNCHANGED <<tick, dampening, ledger, world, drift_events>>
    /\ \A k \in (Len(escalation_queue) + 1)..Len(escalation_queue') :
           escalation_queue'[k].status = "pending"

\* C36: an escalation entry changes only from pending to resolved and only
\* through resolve_escalation; the resolve of a pending id returns the entry
\* with the resolution and the resolver recorded and takes it out of
\* pending_escalations; the resolve of an unknown or an already resolved id
\* returns None and leaves the queue as it is; no entry is ever removed and a
\* resolved entry stays resolved.
C36_EscalationLifecycle ==
    /\ [][escalation_step]_vars
    /\ [](\A escalation_id \in EscalationIds : \A resolver \in Resolvers :
            \E r \in { resolve_escalation(escalation_queue, escalation_id,
                                          "approved", resolver) } :
                IF \E k \in 1..Len(escalation_queue) :
                       /\ escalation_queue[k].id = escalation_id
                       /\ escalation_queue[k].status = "pending"
                THEN /\ r.result # << >>
                     /\ Head(r.result).id = escalation_id
                     /\ Head(r.result).status = "resolved"
                     /\ Head(r.result).resolution = "approved"
                     /\ Head(r.result).resolved_by = resolver
                     /\ Head(r.result) \in Range(r.queue)
                     /\ Len(r.queue) = Len(escalation_queue)
                     /\ Len(pending_escalations(r.queue)) =
                            Len(pending_escalations(escalation_queue)) - 1
                     /\ \A k \in 1..Len(r.queue) :
                            r.queue[k].id = escalation_id =>
                                r.queue[k].status = "resolved"
                ELSE /\ r.result = << >>
                     /\ r.queue = escalation_queue)
    /\ [](\A k \in 1..Len(escalation_queue) :
            /\ escalation_queue[k].status \in {"pending", "resolved"}
            /\ escalation_queue[k].status = "pending" <=>
                   escalation_queue[k].resolved_by = ""
            /\ \A j \in 1..Len(escalation_queue) :
                   escalation_queue[j].id = escalation_queue[k].id => j = k)

\* A queue with an entry that a human has resolved and a later entry that
\* is still pending.
C36_Witness ==
    /\ Len(escalation_queue) = 2
    /\ escalation_queue[1].status = "resolved"
    /\ escalation_queue[1].resolution = "approved"
    /\ escalation_queue[1].resolved_by = "admin"
    /\ escalation_queue[2].status = "pending"
    /\ Len(pending_escalations(escalation_queue)) = 1

-----------------------------------------------------------------------------
(* SpecReconFlaky: ticks over a fabric with a handler that raises          *)

\* register_executor(action_type, handler) was called with a handler that
\* raises, for the e-mail channel or for the human queue.
FlakyExecutors ==
    { [ t \in DOMAIN DefaultExecutors |->
          IF t = broken THEN "raises" ELSE DefaultExecutors[t] ] :
        broken \in {"send_email", "route_to_human"} }

InitReconFlaky ==
    /\ world \in ReconWorlds
    /\ handlerLog = << >>
    /\ cga = NoCGA
    /\ uuid = 0
    /\ registry = BASELINE_ACTION_TYPES
    /\ gIn = << >>
    /\ gOut = << >>
    /\ xIn = << >>
    /\ xOut = "none"
    /\ xResult = << >>
    /\ ledger = << >>
    /\ writers = << >>
    /\ lOut = << >>
    /\ tampered = << >>
    /\ tick = [ pc |-> "idle", now |-> 0, todo |-> << >>, n |-> 0 ]
    /\ dampening = << >>
    /\ config \in ReconConfigs
    /\ escalation_queue = << >>
    /\ \E i \in ReconIntents : registered = << i >>
    /\ drift_events = << >>
    /\ heuristics = << >>
    /\ cycles = << >>
    /\ executors \in FlakyExecutors
    /\ run = NoRun
    /\ policy_proposals = << >>
    /\ callers = << >>

SpecReconFlaky == InitReconFlaky /\ [][NextRecon]_vars

\* C33: an entity that drifts is eventually contacted or brought to a
\* human.  Every complete cycle ends in one of the two: it is escalated, or
\* its entity has last_contacted set.  (A cycle that ends with neither
\* leaves the entity drifting, with no consecutive failure counted and
\* nothing queued, so that the tick after the cooldown repeats the very
\* same cycle, and so on without end.)
C33_ContactedOrEscalated ==
    [][tick.pc = "cga" /\ tick'.pc = "scan" =>
          \/ cga.escalated
          \/ world[Head(tick.todo)].last_contacted]_vars

-----------------------------------------------------------------------------
(* SpecRun: run_async, the heartbeat loop, and the stop event               *)

MaxRunTicks == 3

\* config.heartbeat_interval_seconds, in units of the clock
Heartbeats == {1, 2}

\* Mutant: the while condition ignores the stop event.
run_continues_always(stop_is_set) == TRUE

\* while not stop_event.is_set()
run_continues(stop_is_set) == ~stop_is_set

\* run_async has not been called; the caller passes an event (possibly set
\* already) or None, for which run_async creates an event nobody else holds.
InitRun ==
    /\ world = [ e \in {} |-> 0 ]
    /\ handlerLog = << >>
    /\ cga = NoCGA
    /\ uuid = 0
    /\ registry = BASELINE_ACTION_TYPES
    /\ gIn = << >>
    /\ gOut = << >>
    /\ xIn = << >>
    /\ xOut = "none"
    /\ xResult = << >>
    /\ ledger = << >>
    /\ writers = << >>
    /\ lOut = << >>
    /\ tampered = << >>
    /\ tick = [ pc |-> "idle", now |-> 0, todo |-> << >>, n |-> 0 ]
    /\ dampening = << >>
    /\ config \in { c \in ReconConfigs : c.max_retry_budget = 3 /\ c.circuit_breaker_threshold = 2 /\ c.cooldown_seconds = 0 }
    /\ escalation_queue = << >>
    /\ registered = << >>
    /\ drift_events = << >>
    /\ heuristics = << >>
    /\ cycles = << >>
    /\ callers = << >>
    /\ policy_proposals = << >>
    /\ executors = DefaultExecutors
    /\ \E own \in BOOLEAN, set \in BOOLEAN, h \in Heartbeats :
           /\ own => ~set
           /\ run = [ pc |-> "new", running |-> FALSE, stop |-> set,
                      own_event |-> own, ticks |-> 0, waited |-> 0,
                      timeout |-> h ]

\* self._running = True; the event is created when none was passed
RunAsync ==
    /\ run.pc = "new"
    /\ run' = [run EXCEPT !.pc = "check", !.running = TRUE]
    /\ UNCHANGED <<policy_proposals, tick, dampening, config, escalation_queue, registered, drift_events, heuristics, cycles, callers, govVars, execVars, worldVars, cgaVars, ledgerVars>>

\* the while condition holds: reconcile_once is called
LoopEnter ==
    /\ run.pc = "check"
    /\ run_continues(run.stop)
    /\ run.ticks < MaxRunTicks
    /\ run' = [run EXCEPT !.pc = "tick", !.ticks = @ + 1]
    /\ UNCHANGED <<policy_proposals, tick, dampening, config, escalation_queue, registered, drift_events, heuristics, cycles, callers, govVars, execVars, worldVars, cgaVars, ledgerVars>>

\* the while condition fails: finally, self._running = False
LoopExit ==
    /\ run.pc = "check"
    /\ ~run_continues(run.stop)
    /\ run' = [run EXCEPT !.pc = "finished", !.running = FALSE]
    /\ UNCHANGED <<policy_proposals, tick, dampening, config, escalation_queue, registered, drift_events, heuristics, cycles, callers, govVars, execVars, worldVars, cgaVars, ledgerVars>>

\* reconcile_once returns: await wait_for(stop_event.wait(), timeout)
TickReturns ==
    /\ run.pc = "tick"
    /\ run' = [run EXCEPT !.pc = "wait", !.waited = 0]
    /\ UNCHANGED <<policy_proposals, tick, dampening, config, escalation_queue, registered, drift_events, heuristics, cycles, callers, govVars, execVars, worldVars, cgaVars, ledgerVars>>

\* reconcile_once raises: finally, self._running = False, the exception
\* leaves run_async
TickRaises ==
    /\ run.pc = "tick"
    /\ run' = [run EXCEPT !.pc = "raised", !.running = FALSE]
    /\ UNCHANGED <<policy_proposals, tick, dampening, config, escalation_queue, registered, drift_events, heuristics, cycles, callers, govVars, execVars, worldVars, cgaVars, ledgerVars>>

\* one unit of the heartbeat interval passes while the event is not set
HeartbeatPasses ==
    /\ run.pc = "wait"
    /\ ~run.stop
    /\ run.waited < run.timeout
    /\ run' = [run EXCEPT !.waited = @ + 1]
    /\ UNCHANGED <<policy_proposals, tick, dampening, config, escalation_queue, registered, drift_events, heuristics, cycles, callers, govVars, execVars, worldVars, cgaVars, ledgerVars>>

\* except asyncio.TimeoutError: continue
WaitTimesOut ==
    /\ run.pc = "wait"
    /\ ~run.stop
    /\ run.waited = run.timeout
    /\ run' = [run EXCEPT !.pc = "check"]
    /\ UNCHANGED <<policy_proposals, tick, dampening, config, escalation_queue, registered, drift_events, heuristics, cycles, callers, govVars, execVars, worldVars, cgaVars, ledgerVars>>

\* stop_event.wait() returns because the event is set: wait_for returns
WaitEnds ==
    /\ run.pc = "wait"
    /\ run.stop
    /\ run' = [run EXCEPT !.pc = "check"]
    /\ UNCHANGED <<policy_proposals, tick, dampening, config, escalation_queue, registered, drift_events, heuristics, cycles, callers, govVars, execVars, worldVars, cgaVars, ledgerVars>>

\* the holder of the event passed to run_async calls stop_event.set()
SetStop ==
    /\ ~run.own_event
    /\ ~run.stop
    /\ run.pc \notin {"finished", "raised"}
    /\ run' = [run EXCEPT !.stop = TRUE]
    /\ UNCHANGED <<policy_proposals, tick, dampening, config, escalation_queue, registered, drift_events, heuristics, cycles, callers, govVars, execVars, worldVars, cgaVars, ledgerVars>>

\* the steps of the coroutine
RunStep ==
    \/ RunAsync
    \/ LoopEnter
    \/ LoopExit
    \/ TickReturns
    \/ TickRaises
    \/ HeartbeatPasses
    \/ WaitTimesOut
    \/ WaitEnds

NextRun ==
    \/ RunAsync
    \/ LoopEnter
    \/ LoopExit
    \/ TickReturns
    \/ TickRaises
    \/ HeartbeatPasses
    \/ WaitTimesOut
    \/ WaitEnds
    \/ SetStop

\* The event loop runs the coroutine whenever it can take a step;
\* reconcile_once is synchronous and ends.
SpecRun == InitRun /\ [][NextRun]_vars /\ WF_vars(RunStep)

\* ReconcilerLoop.status
status == IF run.running THEN "running" ELSE "stopped"

\* C25: status is "running" exactly while run_async executes; once the stop
\* event is set no tick is started; a tick in progress ends by its own
\* return (or exception), never by the stop; a wait with the event set ends
\* without any more of the heartbeat interval passing; and after the stop
\* the loop terminates with status "stopped".
C25_StopEndsLoop ==
    /\ [](status = "running" <=> run.pc \in {"check", "tick", "wait"})
    /\ [][run.stop => run'.ticks = run.ticks]_vars
    /\ [][run.pc = "tick" => run'.pc \in {"tick", "wait", "raised"}]_vars
    /\ [][run.pc = "wait" /\ run.stop => run'.pc = "check" /\ run'.waited = run.waited]_vars
    /\ (run.stop /\ run.pc # "new") ~> (run.pc \in {"finished", "raised"} /\ status = "stopped")

\* the event was set during the heartbeat wait, before the timeout, and the
\* loop has finished
C25_Witness ==
    /\ run.pc = "finished"
    /\ run.stop
    /\ run.ticks = 2
    /\ run.waited >= 1
    /\ run.waited < run.timeout


-----------------------------------------------------------------------------
(* SpecLearn: the learning engine next to the policy it must not touch     *)

MaxLearnIds == 3

Reviewers == {"admin"}

\* PolicyProposal(...) as propose_policy_change builds it
PolicyProposal(id, proposed_change, supporting_lineage_ids) ==
    [ id                     |-> id,
      proposed_change        |-> proposed_change,
      supporting_lineage_ids |-> supporting_lineage_ids,
      proposed_by            |-> "strategy_layer",
      status                 |-> "pending_review",
      reviewed_by            |-> << >> ]

\* The proposals after propose_policy_change
propose_policy_change(proposals, id, proposed_change, supporting_lineage_ids) ==
    Append(proposals, PolicyProposal(id, proposed_change, supporting_lineage_ids))

\* Mutant: a proposal can be reviewed again.
is_reviewable_again(proposals, proposal_id) ==
    \E k \in 1..Len(proposals) : proposals[k].id = proposal_id

\* proposal and proposal.status == "pending_review"
is_reviewable(proposals, proposal_id) ==
    \E k \in 1..Len(proposals) :
        /\ proposals[k].id = proposal_id
        /\ proposals[k].status = "pending_review"

\* approve_proposal and reject_proposal: the proposals after the call
review_proposal(proposals, proposal_id, reviewer, outcome) ==
    IF is_reviewable(proposals, proposal_id)
    THEN [ k \in 1..Len(proposals) |->
             IF proposals[k].id = proposal_id
             THEN [proposals[k] EXCEPT !.status = outcome,
                                       !.reviewed_by = << reviewer >>]
             ELSE proposals[k] ]
    ELSE proposals

\* The violated constraint names of all decisions of the records, in order.
RECURSIVE violated_names(_)
violated_names(decisions) ==
    IF decisions = << >> THEN << >>
    ELSE Head(decisions).violated_constraints \o violated_names(Tail(decisions))

\* total_counts[name] and escalation_counts[name] of
\* detect_policy_improvement_opportunity
total_count(records, name) ==
    SumSeq([ r \in 1..Len(records) |->
        Cardinality({ k \in 1..Len(violated_names(records[r].governance_decisions)) :
            violated_names(records[r].governance_decisions)[k] = name }) ])

escalation_count(records, name) ==
    SumSeq([ r \in 1..Len(records) |->
        IF records[r].escalated_to_human
        THEN Cardinality({ k \in 1..Len(violated_names(records[r].governance_decisions)) :
                 violated_names(records[r].governance_decisions)[k] = name })
        ELSE 0 ])

\* The names in the insertion order of total_counts.
RECURSIVE first_seen(_, _)
first_seen(names, seen) ==
    IF names = << >> THEN seen
    ELSE first_seen(Tail(names),
             IF \E k \in 1..Len(seen) : seen[k] = Head(names)
             THEN seen ELSE Append(seen, Head(names)))

\* detect_policy_improvement_opportunity: the proposals after the call.  A
\* constraint with at least 5 violations, more than half of them in
\* escalated records, is proposed for review (the first such one).
detect_policy_improvement_opportunity(proposals, records, id) ==
    LET all_names == first_seen(
            violated_names([ k \in 1..Len(records) |->
                [ violated_constraints |->
                    violated_names(records[k].governance_decisions) ] ]), << >>)
        flagged(name) ==
            /\ total_count(records, name) >= 5
            /\ 2 * escalation_count(records, name) > total_count(records, name)
        hits == SelectSeq(all_names, flagged)
    IN  IF hits = << >> THEN proposals
        ELSE propose_policy_change(proposals, id, Head(hits),
                 [ k \in 1..(IF Len(records) < 10 THEN Len(records) ELSE 10) |->
                     records[k].id ])

\* Lineage records of reconciler cycles on an EU lead without consent: the
\* budget exhausted by three rejections, an approval at the third attempt,
\* an approval at the first.
LearnRecord(id, rejected, escalated) ==
    [ LineageRecord(id, id, Intent("i1", 50, <<H_gdpr>>, << >>, TRUE, 10),
                    "e1", 9, IF escalated THEN rejected ELSE rejected + 1,
                    escalated)
      EXCEPT !.world_state_snapshot =
                 get_state_snapshot(
                     [ e \in {"e1"} |->
                         Entity("EU", FALSE, 14, FALSE, << 0 >>, <<"i1">>) ],
                     << >>),
             !.execution_success = ~escalated,
             !.governance_decisions =
                 [ k \in 1..(IF escalated THEN rejected ELSE rejected + 1) |->
                     [ id |-> k,
                       verdict |-> IF k <= rejected THEN REJECTED ELSE APPROVED,
                       violated_constraints |->
                           IF k <= rejected
                           THEN <<"gdpr_consent_required">> ELSE << >> ] ] ]

LearnRecords ==
    { LearnRecord(1, 3, TRUE), LearnRecord(2, 2, FALSE), LearnRecord(3, 0, FALSE) }

LearnRecordLists ==
    { <<a>> : a \in LearnRecords } \cup
    { <<a, b>> : a \in LearnRecords, b \in LearnRecords }

LearnIntents ==
    { Intent("i1", 50, h, << >>, TRUE, 10) : h \in { << >>, <<H_gdpr>> } }

InitLearn ==
    /\ world = << >>
    /\ handlerLog = << >>
    /\ cga = << >>
    /\ uuid = 0
    /\ registry = BASELINE_ACTION_TYPES
    /\ gIn = << >>
    /\ gOut = << >>
    /\ xIn = << >>
    /\ xOut = "none"
    /\ xResult = << >>
    /\ ledger = << >>
    /\ writers = << >>
    /\ lOut = << >>
    /\ tampered = << >>
    /\ tick = << >>
    /\ dampening = << >>
    /\ config = << >>
    /\ escalation_queue = << >>
    /\ registered = << Intent("i1", 50, <<H_gdpr>>, << >>, TRUE, 10) >>
    /\ drift_events = << >>
    /\ heuristics = << >>
    /\ cycles = << >>
    /\ executors = DefaultExecutors
    /\ run = NoRun
    /\ policy_proposals = << >>
    /\ callers = << >>

\* learning.learn_from_lineage(record)
LearnFromLineage ==
    /\ uuid < MaxLearnIds
    /\ \E record \in LearnRecords :
           heuristics' = learn_from_lineage(heuristics, record, uuid + 1)
    /\ uuid' = uuid + 1
    /\ UNCHANGED <<run, tick, dampening, config, escalation_queue, drift_events, cycles, callers, gIn, gOut, execVars, worldVars, cga, ledgerVars, registered, registry, policy_proposals>>

\* learning.detect_policy_improvement_opportunity(records)
DetectOpportunity ==
    /\ uuid < MaxLearnIds
    /\ \E records \in LearnRecordLists :
           policy_proposals' =
               detect_policy_improvement_opportunity(policy_proposals, records, uuid + 1)
    /\ uuid' = uuid + 1
    /\ UNCHANGED <<run, tick, dampening, config, escalation_queue, drift_events, cycles, callers, gIn, gOut, execVars, worldVars, cga, ledgerVars, registered, registry, heuristics>>

\* learning.propose_policy_change(...)
ProposePolicyChange ==
    /\ uuid < MaxLearnIds
    /\ policy_proposals' =
           propose_policy_change(policy_proposals, uuid + 1, "manual", << >>)
    /\ uuid' = uuid + 1
    /\ UNCHANGED <<run, tick, dampening, config, escalation_queue, drift_events, cycles, callers, gIn, gOut, execVars, worldVars, cga, ledgerVars, registered, registry, heuristics>>

\* POST /learning/proposals/{proposal_id}/approve, for any id
ApproveProposal ==
    /\ \E proposal_id \in 1..MaxLearnIds, reviewer \in Reviewers :
           policy_proposals' =
               review_proposal(policy_proposals, proposal_id, reviewer, "approved")
    /\ UNCHANGED <<run, tick, dampening, config, escalation_queue, drift_events, cycles, callers, gIn, gOut, execVars, worldVars, cga, ledgerVars, uuid, registered, registry, heuristics>>

\* POST /learning/proposals/{proposal_id}/reject, for any id
RejectProposal ==
    /\ \E proposal_id \in 1..MaxLearnIds, reviewer \in Reviewers :
           policy_proposals' =
               review_proposal(policy_proposals, proposal_id, reviewer, "rejected")
    /\ UNCHANGED <<run, tick, dampening, config, escalation_queue, drift_events, cycles, callers, gIn, gOut, execVars, worldVars, cga, ledgerVars, uuid, registered, registry, heuristics>>

\* register_intent by the operator: self._intents[intent.id] = intent
RegisterIntent ==
    /\ \E intent \in LearnIntents :
           /\ intent # registered[1]
           /\ registered' = << intent >>
    /\ UNCHANGED <<run, tick, dampening, config, escalation_queue, drift_events, cycles, callers, gIn, gOut, execVars, worldVars, cga, ledgerVars, uuid, registry, heuristics, policy_proposals>>

\* register_action_type by the operator
LearnRegisterActionType ==
    /\ "phased" \notin DOMAIN registry
    /\ registry' = [t \in DOMAIN registry \cup {"phased"} |->
                       IF t = "phased" THEN PhasedSpec ELSE registry[t]]
    /\ UNCHANGED <<run, tick, dampening, config, escalation_queue, drift_events, cycles, callers, gIn, gOut, execVars, worldVars, cga, ledgerVars, uuid, registered, heuristics, policy_proposals>>

NextLearn ==
    \/ LearnFromLineage
    \/ DetectOpportunity
    \/ ProposePolicyChange
    \/ ApproveProposal
    \/ RejectProposal
    \/ RegisterIntent
    \/ LearnRegisterActionType

SpecLearn == InitLearn /\ [][NextLearn]_vars

\* the proposal with this id, as a sequence of length 0 or 1
proposal_with(proposals, id) ==
    LET has_id(p) == p.id = id IN SelectSeq(proposals, has_id)

\* a step creates the proposal with status pending_review, leaves it as it
\* is, or is a review of it made while it is pending
status_by_review_only(id) ==
    LET before == proposal_with(policy_proposals, id)
        after  == proposal_with(policy_proposals', id)
    IN  /\ before = << >> /\ after # << >> => after[1].status = "pending_review"
        /\ before # << >> =>
               \/ after = before
               \/ /\ before[1].status = "pending_review"
                  /\ ApproveProposal \/ RejectProposal
                  /\ after[1].status \in {"approved", "rejected"}

\* C26: a policy proposal starts as pending_review and changes only by an
\* approve_proposal or reject_proposal call made while it is pending; the
\* steps of learn_from_lineage, detect_policy_improvement_opportunity and
\* approve_proposal leave the intents, their constraints and the action
\* type registry as they are.
C26_IronRule ==
    /\ [][\A id \in 1..(MaxLearnIds + 1) : status_by_review_only(id)]_vars
    /\ [][LearnFromLineage \/ DetectOpportunity \/ ApproveProposal \/ RejectProposal
            => registered' = registered /\ registry' = registry]_vars

\* a proposal raised by the detection was approved, a second review of it
\* was refused, and the operator has changed a constraint meanwhile
C26_Witness ==
    /\ \E k \in 1..Len(policy_proposals) :
           /\ policy_proposals[k].status = "approved"
           /\ policy_proposals[k].proposed_change = "gdpr_consent_required"
    /\ \E k \in 1..Len(policy_proposals) :
           policy_proposals[k].status = "rejected"
    /\ heuristics # << >>
    /\ registered[1].hard_constraints = << >>

-----------------------------------------------------------------------------
(* reconcile_once called from threads: the heartbeat of run_async and the  *)
(* handler of POST /reconciler/trigger, which the server runs in a worker  *)
(* thread.  reconcile_once takes no lock.  A thread's cga.run and the rest *)
(* of _handle_drift are taken as one step each.                            *)

Callers == {"heartbeat", "trigger"}

InitReconConc ==
    /\ world \in ReconWorlds
    /\ handlerLog = << >>
    /\ cga = << >>
    /\ uuid = 0
    /\ registry = BASELINE_ACTION_TYPES
    /\ gIn = << >>
    /\ gOut = << >>
    /\ xIn = << >>
    /\ xOut = "none"
    /\ xResult = << >>
    /\ ledger = << >>
    /\ writers = << >>
    /\ lOut = << >>
    /\ tampered = << >>
    /\ tick = << >>
    /\ dampening = << >>
    /\ config \in { c \in ReconConfigs : c.max_retry_budget = 1 }
    /\ escalation_queue = << >>
    /\ \E i \in ReconIntents : registered = << i >>
    /\ drift_events = << >>
    /\ heuristics = << >>
    /\ cycles = << >>
    /\ executors = DefaultExecutors
    /\ run = NoRun
    /\ policy_proposals = << >>
    /\ callers = [ t \in Callers |->
                     [ pc |-> "idle", now |-> 0, todo |-> << >>, drift |-> << >>,
                       result |-> << >> ] ]

\* a thread enters reconcile_once
ConcEnter(t) ==
    /\ callers[t].pc = "idle"
    /\ \E current_time \in {0, 1} :
           callers' = [callers EXCEPT ![t] =
               [ pc |-> "scan", now |-> current_time,
                 todo |-> entity_items(world), drift |-> << >>,
                 result |-> << >> ]]
    /\ UNCHANGED <<run, policy_proposals, tick, dampening, config, escalation_queue, registered,
                   drift_events, heuristics, cycles, govVars, execVars,
                   worldVars, cgaVars, ledgerVars>>

\* the thread's scan passes over an entity: dampened, or not drifting
ConcScanSkip(t) ==
    /\ callers[t].pc = "scan"
    /\ callers[t].todo # << >>
    /\ LET entity_id == Head(callers[t].todo) IN
       \/ is_dampened(dampening, entity_id, callers[t].now)
       \/ check(entity_id, world[entity_id], registered, callers[t].now) = << >>
    /\ callers' = [callers EXCEPT ![t].todo = Tail(@)]
    /\ UNCHANGED <<run, policy_proposals, tick, dampening, config, escalation_queue, registered,
                   drift_events, heuristics, cycles, govVars, execVars,
                   worldVars, cgaVars, ledgerVars>>

\* the entity passed the dampening check and drifts: _handle_drift is
\* entered
ConcScanDrift(t) ==
    /\ callers[t].pc = "scan"
    /\ callers[t].todo # << >>
    /\ LET entity_id == Head(callers[t].todo)
           events == check(entity_id, world[entity_id], registered,
                           callers[t].now)
           serves(i) == i.id = Head(events).intent_id
       IN  /\ ~is_dampened(dampening, entity_id, callers[t].now)
           /\ events # << >>
           /\ callers' = [callers EXCEPT
                  ![t].pc = "handling",
                  ![t].drift = events,
                  ![t].result = << cga_begin("rule",
                      SelectSeq(registered, serves)[1],
                      Head(events), registered, config.max_retry_budget) >>]
           /\ cycles' = Append(cycles,
                  [ entity_id        |-> entity_id,
                    time             |-> callers[t].now,
                    cooldown_seconds |-> config.cooldown_seconds,
                    tick             |-> t ])
    /\ UNCHANGED <<run, policy_proposals, tick, dampening, config, escalation_queue, registered,
                   drift_events, heuristics, govVars, execVars, worldVars,
                   cgaVars, ledgerVars>>

\* one turn of the loop of the thread's cga.run: a round of generation,
\* evaluation and dispatch, or the else branch when the budget is out
ConcRunCGA(t) ==
    /\ callers[t].pc = "handling"
    /\ Head(callers[t].result).pc = "loop"
    /\ \E c \in { Head(callers[t].result) } :
         IF loop_continues(c.attempt, c.max_attempts)
         THEN \E proposal \in generated_proposals(c, uuid + 1, c.attempt + 1) :
              \E r \in { cga_round(c, proposal,
                             evaluate_proposal(uuid + 2, proposal, c.intents,
                                               world, registry, ""),
                             world, handlerLog) } :
                  /\ callers' = [callers EXCEPT ![t].result = << r.cga >>]
                  /\ world' = r.entities
                  /\ handlerLog' = r.log
                  /\ uuid' = uuid + 2
         ELSE /\ callers' = [callers EXCEPT
                                ![t].result = << cga_exhausted(c) >>]
              /\ UNCHANGED <<world, handlerLog, uuid>>
    /\ UNCHANGED <<run, policy_proposals, tick, dampening, config, escalation_queue, registered,
                   drift_events, heuristics, cycles, cga, govVars, execVars,
                   ledgerVars>>

\* the rest of the thread's _handle_drift: lineage append, drift event,
\* dampening, learning, escalation
ConcCompleteDrift(t) ==
    /\ callers[t].pc = "handling"
    /\ Head(callers[t].result).pc # "loop"
    /\ LET result == Head(callers[t].result)
           cycle_id == uuid + 1
           built == build_lineage_record(result, uuid + 2, cycle_id,
                        get_state_snapshot(world, drift_events), callers[t].now)
           done  == append(ledger, built)
           drift == Head(result.drift)
       IN  /\ ledger' = done.rows
           /\ lOut' = [ op |-> "append", value |-> done.record ]
           /\ drift_events' = Append(drift_events, drift)
           /\ dampening' = update_dampening(dampening, drift.entity_id,
                               result.escalated, callers[t].now, config)
           /\ heuristics' = learn_from_lineage(heuristics, done.record, uuid + 3)
           /\ escalation_queue' =
                  IF result.escalated
                  THEN Append(escalation_queue,
                           [ id                |-> uuid + 4,
                             cycle_id          |-> cycle_id,
                             lineage_id        |-> done.record.id,
                             intent_id         |-> Head(result.intent).id,
                             entity_id         |-> drift.entity_id,
                             proposals_tried   |-> Len(result.proposals),
                             rejection_reasons |-> rejection_reasons(result.decisions),
                             status            |-> "pending",
                             resolution        |-> "",
                             resolved_by       |-> "",
                             created_at        |-> callers[t].now ])
                  ELSE escalation_queue
    /\ uuid' = uuid + 4
    /\ callers' = [callers EXCEPT ![t].pc = "scan", ![t].todo = Tail(@),
                                  ![t].drift = << >>, ![t].result = << >>]
    /\ UNCHANGED <<run, policy_proposals, tick, config, registered, cycles, cga, writers, tampered,
                   govVars, execVars, worldVars>>

\* the thread's scan is over: mark_reconciled, return
ConcReturn(t) ==
    /\ callers[t].pc = "scan"
    /\ callers[t].todo = << >>
    /\ callers' = [callers EXCEPT ![t].pc = "returned"]
    /\ UNCHANGED <<run, policy_proposals, tick, dampening, config, escalation_queue, registered,
                   drift_events, heuristics, cycles, govVars, execVars,
                   worldVars, cgaVars, ledgerVars>>

NextReconConc ==
    \E t \in Callers :
        \/ ConcEnter(t)
        \/ ConcScanSkip(t)
        \/ ConcScanDrift(t)
        \/ ConcRunCGA(t)
        \/ ConcCompleteDrift(t)
        \/ ConcReturn(t)

SpecReconConc == InitReconConc /\ [][NextReconConc]_vars

\* C11: reconciliation of one world model is serialized: concurrent
\* reconcile_once calls do not overlap, so the same drifting entity is never
\* in the hands of two CGA cycles that both passed the dampening check.
C11_ReconciliationSerialized ==
    \A a, b \in DOMAIN callers :
        (/\ a # b
         /\ callers[a].pc = "handling"
         /\ callers[b].pc = "handling")
            => Head(callers[a].drift).entity_id # Head(callers[b].drift).entity_id

====
